---- MODULE Spec2Model ----
(***************************************************************************)
(* Token-2022 extension layer: the TLV extension scanner, the instruction  *)
(* byte encoders and the bounded cross-program-call builders.              *)
(*                                                                         *)
(* Every operation of the library is a call that runs to completion, so    *)
(* each action below is one whole call: it draws the call's inputs from    *)
(* small sets, computes what the code computes, and records the outcome.   *)
(***************************************************************************)
EXTENDS Integers, Sequences, FiniteSets, TLC

\* ---------------------------------------------------------------- bounds
\* Longest multisig signer list tried (MAX_MULTISIG_SIGNERS + 2).
MaxSigners == 13
\* Longest source-account list tried (MAX_CPI_ACCOUNTS + 2).
MaxSources == 66
\* Most TLV entries laid out in a generated account buffer.
MaxEntries == 3
\* Most bytes cut from the tail of a generated account buffer.
MaxCut == 6

\* ------------------------------------------------------ program constants
MAX_MULTISIG_SIGNERS == 11
\* pinocchio::cpi::MAX_CPI_ACCOUNTS
MAX_CPI_ACCOUNTS == 64
EXTENSIONS_PADDING == 83
EXTENSION_START_OFFSET == 1
EXTENSION_LENGTH_LEN == 2
EXTENSION_TYPE_LEN == 2
\* crate::state::Mint::BASE_LEN and crate::state::TokenAccount::BASE_LEN
Mint_BASE_LEN == 82
TokenAccount_BASE_LEN == 165

\* --------------------------------------------------------------- helpers
Min(a, b) == IF a < b THEN a ELSE b

\* s[lo..hi) of a 0-indexed Rust slice held in a 1-indexed sequence.
Slice(s, lo, hi) == [i \in 1..(hi - lo) |-> s[lo + i]]

\* u16::from_le_bytes
u16_from_le_bytes(b) == b[1] + 256 * b[2]

\* u16::to_le_bytes
u16_to_le_bytes(v) == <<v % 256, (v \div 256) % 256>>

\* ------------------------------------------------------ extension registry
\* enum ExtensionType, #[repr(u16)]: the variants in declaration order, the
\* first having discriminant 0.
ExtensionTypeVariants ==
    <<"Uninitialized", "TransferFeeConfig", "TransferFeeAmount",
      "MintCloseAuthority", "ConfidentialTransferMint",
      "ConfidentialTransferAccount", "DefaultAccountState", "ImmutableOwner",
      "MemoTransfer", "NonTransferable", "InterestBearingConfig", "CpiGuard",
      "PermanentDelegate", "NonTransferableAccount", "TransferHook",
      "TransferHookAccount", "ConfidentialTransferFeeConfig",
      "ConfidentialTransferFeeAmount", "MetadataPointer", "TokenMetadata",
      "GroupPointer", "TokenGroup", "GroupMemberPointer", "TokenGroupMember",
      "ConfidentialMintBurn", "ScaledUiAmount", "Pausable", "PausableAccount">>

\* `variant as u16`
ExtensionType_as_u16(variant) ==
    (CHOOSE i \in 1..Len(ExtensionTypeVariants) : ExtensionTypeVariants[i] = variant) - 1

\* The arms of the match in ExtensionType::from_bytes: value |-> variant.
from_bytes_arms ==
    [v \in 0..27 |->
        CASE v = 0 -> "Uninitialized"
          [] v = 1 -> "TransferFeeConfig"
          [] v = 2 -> "TransferFeeAmount"
          [] v = 3 -> "MintCloseAuthority"
          [] v = 4 -> "ConfidentialTransferMint"
          [] v = 5 -> "ConfidentialTransferAccount"
          [] v = 6 -> "DefaultAccountState"
          [] v = 7 -> "ImmutableOwner"
          [] v = 8 -> "MemoTransfer"
          [] v = 9 -> "NonTransferable"
          [] v = 10 -> "InterestBearingConfig"
          [] v = 11 -> "CpiGuard"
          [] v = 12 -> "PermanentDelegate"
          [] v = 13 -> "NonTransferableAccount"
          [] v = 14 -> "TransferHook"
          [] v = 15 -> "TransferHookAccount"
          [] v = 16 -> "ConfidentialTransferFeeConfig"
          [] v = 17 -> "ConfidentialTransferFeeAmount"
          [] v = 18 -> "MetadataPointer"
          [] v = 19 -> "TokenMetadata"
          [] v = 20 -> "GroupPointer"
          [] v = 21 -> "TokenGroup"
          [] v = 22 -> "GroupMemberPointer"
          [] v = 23 -> "TokenGroupMember"
          [] v = 24 -> "ConfidentialMintBurn"
          [] v = 25 -> "ScaledUiAmount"
          [] v = 26 -> "Pausable"
          [] v = 27 -> "PausableAccount"]

\* The 16-bit values ExtensionType::from_bytes maps to a variant.
RegisteredTypes == 0..27

\* Mutant: the lookup matches on the low byte of the value alone.
ExtensionType_from_bytes_variant_LowByteOnly(val) ==
    IF val[1] \in DOMAIN from_bytes_arms
    THEN [some |-> TRUE, variant |-> from_bytes_arms[val[1]]]
    ELSE [some |-> FALSE, variant |-> ""]

\* ExtensionType::from_bytes: Some(variant) or None.
ExtensionType_from_bytes_variant(val) ==
    LET v == u16_from_le_bytes(val)
    IN  IF v \in DOMAIN from_bytes_arms
        THEN [some |-> TRUE, variant |-> from_bytes_arms[v]]
        ELSE [some |-> FALSE, variant |-> ""]

\* ExtensionType::to_bytes
ExtensionType_to_bytes(variant) == u16_to_le_bytes(ExtensionType_as_u16(variant))

\* Mutant: the lookup knows PermanentDelegate only.
ExtensionType_from_bytes_in_OnlyPermanentDelegate(known, val) ==
    LET v == u16_from_le_bytes(val)
    IN  IF v \in known \cap {12} THEN [some |-> TRUE, val |-> v]
                                 ELSE [some |-> FALSE, val |-> 0]

\* ExtensionType::from_bytes as a build with registry `known` has it: an
\* Option of the variant's discriminant; a kind added to the source's
\* registry gets its own value as discriminant.
ExtensionType_from_bytes_in(known, val) ==
    LET v == u16_from_le_bytes(val)
        r == ExtensionType_from_bytes_variant(val)
    IN  IF r.some /\ v \in known
        THEN [some |-> TRUE, val |-> ExtensionType_as_u16(r.variant)]
        ELSE IF v \in known \ RegisteredTypes
        THEN [some |-> TRUE, val |-> v]
        ELSE [some |-> FALSE, val |-> 0]

ExtensionType_from_bytes(val) == ExtensionType_from_bytes_in(RegisteredTypes, val)

\* The implementations of the Extension trait: TYPE, BASE_LEN, BASE_STATE.
NonTransferable == [TYPE |-> 9, BASE_LEN |-> 0, BASE_STATE |-> "Mint"]
NonTransferableAccount == [TYPE |-> 13, BASE_LEN |-> 0, BASE_STATE |-> "TokenAccount"]
PermanentDelegate == [TYPE |-> 12, BASE_LEN |-> 32, BASE_STATE |-> "Mint"]

Extensions == {NonTransferable, NonTransferableAccount, PermanentDelegate}

\* ----------------------------------------------------------- TLV scanner
\* Mutant: the mint's padding is left out of the region start.
ext_start_NoPadding(T) ==
    IF T.BASE_STATE = "Mint"
    THEN Mint_BASE_LEN + EXTENSION_START_OFFSET
    ELSE TokenAccount_BASE_LEN + EXTENSION_START_OFFSET

\* Where the TLV region starts for T's base state.
ext_start(T) ==
    IF T.BASE_STATE = "Mint"
    THEN Mint_BASE_LEN + EXTENSIONS_PADDING + EXTENSION_START_OFFSET
    ELSE TokenAccount_BASE_LEN + EXTENSION_START_OFFSET

\* A scan result: res is "None", "Some" or "panic" (a Rust slice-index
\* panic); payload/at are the returned bytes and their offset in the region;
\* reads are the region offsets read; cursors are the values start took.
ScanOut(res, payload, at, reads, cursors) ==
    [res |-> res, payload |-> payload, at |-> at, reads |-> reads,
     cursors |-> cursors]

\* The loop of get_extension_from_bytes (fixed = TRUE) and of
\* get_extension_data_bytes_for_variable_pack (fixed = FALSE), from cursor
\* `start`. Slicing past `end` panics before any byte is read.
\* Mutant: the cursor moves past the type field and the payload only.
next_start_SkipsLengthField(start, ext_len) ==
    start + EXTENSION_TYPE_LEN + ext_len

\* The cursor after an entry that is not a match.
next_start(start, ext_len) ==
    start + EXTENSION_TYPE_LEN + EXTENSION_LENGTH_LEN + ext_len

\* `known` is the registry the build was made with.
RECURSIVE scan_loop_in(_, _, _, _, _, _, _)
scan_loop_in(known, ext_bytes, start, T, fixed, reads, cursors) ==
    LET end == Len(ext_bytes)
        ext_type_idx == start
        ext_len_idx == ext_type_idx + 2
        ext_data_idx == ext_len_idx + EXTENSION_LENGTH_LEN
        here == Append(cursors, start)
    IN
    IF ~(start < end) THEN ScanOut("None", <<>>, 0, reads, cursors)
    ELSE IF ext_type_idx + EXTENSION_TYPE_LEN > end
    THEN ScanOut("panic", <<>>, 0, reads, here)
    ELSE
      LET reads1 == reads \cup (ext_type_idx .. ext_type_idx + EXTENSION_TYPE_LEN - 1)
          ext_type == ExtensionType_from_bytes_in(known,
                          Slice(ext_bytes, ext_type_idx, ext_type_idx + EXTENSION_TYPE_LEN))
      IN
      IF ~ext_type.some THEN ScanOut("None", <<>>, 0, reads1, here)
      ELSE IF ext_len_idx + EXTENSION_LENGTH_LEN > end
      THEN ScanOut("panic", <<>>, 0, reads1, here)
      ELSE
        LET reads2 == reads1 \cup (ext_len_idx .. ext_len_idx + EXTENSION_LENGTH_LEN - 1)
            ext_len == u16_from_le_bytes(
                           Slice(ext_bytes, ext_len_idx, ext_len_idx + EXTENSION_LENGTH_LEN))
            want == IF fixed THEN T.BASE_LEN ELSE ext_len
            hit == IF fixed
                   THEN ext_type.val = T.TYPE /\ ext_len = T.BASE_LEN
                   ELSE ext_type.val = T.TYPE
        IN
        IF hit
        THEN IF ext_data_idx + want > end
             THEN ScanOut("panic", <<>>, 0, reads2, here)
             ELSE ScanOut("Some", Slice(ext_bytes, ext_data_idx, ext_data_idx + want),
                          ext_data_idx,
                          reads2 \cup (ext_data_idx .. ext_data_idx + want - 1), here)
        ELSE scan_loop_in(known, ext_bytes, next_start(start, ext_len),
                          T, fixed, reads2, here)

\* The loop as built with the registry of the source.
scan_loop(ext_bytes, start, T, fixed, reads, cursors) ==
    scan_loop_in(RegisteredTypes, ext_bytes, start, T, fixed, reads, cursors)

\* The whole scan as a build with registry `known` runs it.
scan_from_in(known, acc_data_bytes, T, fixed) ==
    IF ext_start(T) > Len(acc_data_bytes)
    THEN ScanOut("panic", <<>>, 0, {}, <<>>)
    ELSE scan_loop_in(known, Slice(acc_data_bytes, ext_start(T), Len(acc_data_bytes)),
                      0, T, fixed, {}, <<>>)

\* The part of the account buffer after the base state; taking it panics when
\* the buffer is shorter than the region start.
scan_from(acc_data_bytes, T, fixed) ==
    IF ext_start(T) > Len(acc_data_bytes)
    THEN ScanOut("panic", <<>>, 0, {}, <<>>)
    ELSE scan_loop(Slice(acc_data_bytes, ext_start(T), Len(acc_data_bytes)),
                   0, T, fixed, {}, <<>>)

get_extension_from_bytes(acc_data_bytes, T) == scan_from(acc_data_bytes, T, TRUE)

\* Mutant: the variable-length scanner applies the fixed-size rule.
get_extension_data_bytes_for_variable_pack_FixedRule(acc_data_bytes, T) ==
    scan_from(acc_data_bytes, T, TRUE)

get_extension_data_bytes_for_variable_pack(acc_data_bytes, T) ==
    scan_from(acc_data_bytes, T, FALSE)

\* ------------------------------------------------- instruction encoders
\* A byte of a buffer that no write has reached yet (crate::UNINIT_BYTE):
\* a mark outside 0..255.
UNINIT_BYTE == 0 - 1

uninit_buffer(cap) == [i \in 1..cap |-> UNINIT_BYTE]

\* write_bytes(&mut buffer[lo..hi], source): copies min(hi - lo, len(source))
\* bytes, source[k] to buffer[lo + k].
write_bytes(buffer, lo, hi, source) ==
    [i \in 1..Len(buffer) |->
        IF i - 1 >= lo /\ i - 1 < hi /\ i - lo <= Len(source)
        THEN source[i - lo] ELSE buffer[i]]

\* from_raw_parts(array.as_ptr(), n): the first n elements; past the array's
\* capacity it reads memory that is not the array's (`beyond`).
from_raw_parts(array, n, beyond) ==
    [i \in 1..n |-> IF i <= Len(array) THEN array[i] ELSE beyond]

\* A u64 is held as its four 16-bit limbs, least significant first.
u64_to_le_bytes(v) ==
    u16_to_le_bytes(v[1]) \o u16_to_le_bytes(v[2])
      \o u16_to_le_bytes(v[3]) \o u16_to_le_bytes(v[4])

u8_to_le_bytes(v) == <<v>>

\* Discriminators.
PAUSABLE_EXTENSION == 44
PAUSE == 1
TRANSFER_FEE_EXTENSION == 26
INITIALIZE_TRANSFER_FEE_CONFIG == 0
TRANSFER_CHECKED_WITH_FEE == 1
WITHDRAW_WITHHELD_TOKENS_FROM_MINT == 2
WITHDRAW_WITHHELD_TOKENS_FROM_ACCOUNTS == 3
HARVEST_WITHHELD_TOKENS_TO_MINT == 4
SET_TRANSFER_FEE == 5
CONFIDENTIAL_TRANSFER_FEE_EXTENSION == 37
INITIALIZE_CONFIDENTIAL_TRANSFER_FEE_CONFIG == 0
\* crate::instructions::ELGAMAL_PUBKEY_LEN
ELGAMAL_PUBKEY_LEN == 32

\* The two-byte data of Pause, written in both paths of the builder.
pause_instruction_data ==
    LET d0 == uninit_buffer(2)
        d1 == write_bytes(d0, 0, 2, <<PAUSABLE_EXTENSION>>)
        d2 == write_bytes(d1, 1, 2, <<PAUSE>>)
    IN  from_raw_parts(d2, 2, UNINIT_BYTE)

set_transfer_fee_instruction_data(transfer_fee_basis_points, maximum_fee) ==
    LET d0 == uninit_buffer(12)
        d1 == write_bytes(d0, 0, 12, <<TRANSFER_FEE_EXTENSION, SET_TRANSFER_FEE>>)
        d2 == write_bytes(d1, 2, 4, u16_to_le_bytes(transfer_fee_basis_points))
        d3 == write_bytes(d2, 4, 12, u64_to_le_bytes(maximum_fee))
    IN  from_raw_parts(d3, 12, UNINIT_BYTE)

transfer_checked_with_fee_instruction_data(amount, decimals, fee) ==
    LET d0 == uninit_buffer(19)
        d1 == write_bytes(d0, 0, 19, <<TRANSFER_FEE_EXTENSION, TRANSFER_CHECKED_WITH_FEE>>)
        d2 == write_bytes(d1, 2, 10, u64_to_le_bytes(amount))
        d3 == write_bytes(d2, 10, 11, u8_to_le_bytes(decimals))
        d4 == write_bytes(d3, 11, 19, u64_to_le_bytes(fee))
    IN  from_raw_parts(d4, 19, UNINIT_BYTE)

\* The data the sibling tree (instructions/extensions/transfer_fee) builds
\* inline, with literal discriminators.
extensions_set_transfer_fee_data(transfer_fee_basis_points, maximum_fee) ==
    LET d0 == uninit_buffer(12)
        d1 == write_bytes(d0, 0, 12, <<26, 5>>)
        d2 == write_bytes(d1, 2, 4, u16_to_le_bytes(transfer_fee_basis_points))
        d3 == write_bytes(d2, 4, 12, u64_to_le_bytes(maximum_fee))
    IN  from_raw_parts(d3, 12, UNINIT_BYTE)

extensions_transfer_checked_with_fee_data(amount, decimals, fee) ==
    LET d0 == uninit_buffer(19)
        d1 == write_bytes(d0, 0, 19, <<26, 1>>)
        d2 == write_bytes(d1, 2, 10, u64_to_le_bytes(amount))
        d3 == write_bytes(d2, 10, 11, u8_to_le_bytes(decimals))
        d4 == write_bytes(d3, 11, 19, u64_to_le_bytes(fee))
    IN  from_raw_parts(d4, 19, UNINIT_BYTE)

\* A Pubkey is held as an identity; its 32 bytes follow from it, identity 0
\* being Pubkey::default(), the all-zero address.
Pubkey_default == 0
Pubkey_bytes(pk) == [i \in 1..32 |-> IF pk = 0 THEN 0 ELSE (pk * 8 + i) % 256]

initialize_confidential_transfer_fee_config_instruction_data(authority, withdraw_withheld_authority_elgamal_pubkey) ==
    LET d0 == uninit_buffer(70)
        d1 == write_bytes(d0, 0, 2, <<CONFIDENTIAL_TRANSFER_FEE_EXTENSION,
                                      INITIALIZE_CONFIDENTIAL_TRANSFER_FEE_CONFIG>>)
        d2 == IF authority.some
              THEN write_bytes(d1, 2, 38, Pubkey_bytes(authority.val))
              ELSE write_bytes(d1, 2, 38, Pubkey_bytes(Pubkey_default))
        d3 == write_bytes(d2, 38, 70, withdraw_withheld_authority_elgamal_pubkey)
    IN  from_raw_parts(d3, 70, UNINIT_BYTE)

\* -------------------------------------------------------- call builders
\* An account handle, and the descriptors pinocchio's AccountMeta
\* constructors make from an address.
AccountInfo(k) == [key |-> k]
AccountMeta_writable(pubkey) ==
    [pubkey |-> pubkey, is_writable |-> TRUE, is_signer |-> FALSE]
AccountMeta_readonly(pubkey) ==
    [pubkey |-> pubkey, is_writable |-> FALSE, is_signer |-> FALSE]
AccountMeta_readonly_signer(pubkey) ==
    [pubkey |-> pubkey, is_writable |-> FALSE, is_signer |-> TRUE]

\* Array slots no write has reached (MaybeUninit::uninit()).
UNINIT_META == [pubkey |-> 0 - 1, is_writable |-> FALSE, is_signer |-> FALSE]
UNINIT_INFO == [key |-> 0 - 1]

\* for (slot, x) in array[off..].iter_mut().zip(items.iter()) { slot.write(f(x)) }
\* with the written values already made: the zip stops at the shorter side.
zip_write(array, off, items) ==
    [i \in 1..Len(array) |->
        IF i - 1 >= off /\ i - off <= Len(items) THEN items[i - off] ELSE array[i]]

\* How many slots that loop writes.
zip_count(array, off, items) ==
    IF off > Len(array) THEN 0 ELSE Min(Len(array) - off, Len(items))

\* What a builder hands back before the host is involved: an early error, or
\* the one cross-program call it makes with its descriptors, account
\* references, data and signer seeds; `writes` counts array slots written.
\* `top` is one more than the highest slot index written, `cap` the capacity
\* of the arrays.
Rejected(e) ==
    [status |-> e, metas |-> <<>>, infos |-> <<>>, data |-> <<>>,
     seeds |-> <<>>, writes |-> 0, calls |-> 0, cap |-> 0, top |-> 0]

Invoke(a, data, seeds) ==
    [status |-> "invoke", metas |-> a.metas, infos |-> a.infos, data |-> data,
     seeds |-> seeds, writes |-> a.writes, calls |-> 1, cap |-> a.cap,
     top |-> a.top]

\* The loop over the multisig signers that every fan-out builder repeats:
\* descriptors, then account references, from slot `fixed` on.
signer_metas(signers) ==
    [i \in 1..Len(signers) |-> AccountMeta_readonly_signer(signers[i].key)]

\* Mutant: the signer-count check is off by one (>= for >).
too_many_signers_OffByOne(signers) == Len(signers) >= MAX_MULTISIG_SIGNERS

\* if signers.len() > MAX_MULTISIG_SIGNERS { return Err(InvalidArgument) }
too_many_signers(signers) == Len(signers) > MAX_MULTISIG_SIGNERS

\* Mutant: the authority stays a signer on the multisig path.
authority_meta_AlwaysSigner(authority, signers) ==
    AccountMeta_readonly_signer(authority.key)

\* The authority's descriptor: signer when there are no multisig signers.
authority_meta(authority, signers) ==
    IF signers = <<>>
    THEN AccountMeta_readonly_signer(authority.key)
    ELSE AccountMeta_readonly(authority.key)

\* The two parallel arrays of capacity `cap`: the fixed accounts written by
\* index, the signers by the zip loop, and the first num_accounts slots of
\* each handed on.
fan_out(fixed_metas, fixed_infos, signers, cap) ==
    LET n == Len(fixed_metas)
        num_accounts == n + Len(signers)
        acc_metas == zip_write(
            zip_write([i \in 1..cap |-> UNINIT_META], 0, fixed_metas),
            n, signer_metas(signers))
        acc_infos == zip_write(
            zip_write([i \in 1..cap |-> UNINIT_INFO], 0, fixed_infos), n, signers)
    IN  [metas |-> from_raw_parts(acc_metas, num_accounts, UNINIT_META),
         infos |-> from_raw_parts(acc_infos, num_accounts, UNINIT_INFO),
         writes |-> 2 * n + 2 * zip_count(acc_metas, n, signers),
         cap |-> cap, top |-> n + zip_count(acc_metas, n, signers)]

\* Pause (extensions/pausable/pause.rs).
Pause_invoke_single_owner(mint, authority, seeds) ==
    LET account_metas == <<AccountMeta_writable(mint.key),
                           AccountMeta_readonly_signer(authority.key)>>
    IN  Invoke([metas |-> account_metas, infos |-> <<mint, authority>>,
                writes |-> 4, cap |-> 2, top |-> 2],
               pause_instruction_data, seeds)

Pause_invoke_multisig(mint, authority, signers) ==
    LET a == fan_out(<<AccountMeta_writable(mint.key),
                       AccountMeta_readonly(authority.key)>>,
                     <<mint, authority>>, signers, 2 + MAX_MULTISIG_SIGNERS)
    IN  Invoke(a, pause_instruction_data, <<>>)

Pause_invoke_signed(mint, authority, signers, seeds) ==
    IF too_many_signers(signers) THEN Rejected("InvalidArgument")
    ELSE IF signers = <<>>
    THEN Pause_invoke_single_owner(mint, authority, seeds)
    ELSE Pause_invoke_multisig(mint, authority, signers)

\* SetTransferFee (instructions/extension/transfer_fee/set_transfer_fee.rs).
SetTransferFee_invoke_signed(mint, fee_account_authority, transfer_fee_basis_points, maximum_fee, account_signers, seeds) ==
    IF too_many_signers(account_signers) THEN Rejected("InvalidArgument")
    ELSE
      LET a == fan_out(<<AccountMeta_writable(mint.key),
                         authority_meta(fee_account_authority, account_signers)>>,
                       <<mint, fee_account_authority>>, account_signers,
                       2 + MAX_MULTISIG_SIGNERS)
      IN  Invoke(a,
                 set_transfer_fee_instruction_data(transfer_fee_basis_points, maximum_fee),
                 seeds)

\* SetTransferFee (instructions/extensions/transfer_fee/set_transfer_fee.rs).
extensions_SetTransferFee_invoke(mint, fee_account_authority, transfer_fee_basis_points, maximum_fee, signers) ==
    IF too_many_signers(signers) THEN Rejected("InvalidArgument")
    ELSE
      LET a == fan_out(<<AccountMeta_writable(mint.key),
                         authority_meta(fee_account_authority, signers)>>,
                       <<mint, fee_account_authority>>, signers,
                       2 + MAX_MULTISIG_SIGNERS)
      IN  Invoke(a,
                 extensions_set_transfer_fee_data(transfer_fee_basis_points, maximum_fee),
                 <<>>)

\* TransferCheckedWithFee (instructions/extension/transfer_fee).
TransferCheckedWithFee_invoke_signed(source_account, mint, destination, source_account_authority, amount, decimals, fee, account_signers, seeds) ==
    IF too_many_signers(account_signers) THEN Rejected("InvalidArgument")
    ELSE
      LET a == fan_out(<<AccountMeta_writable(source_account.key),
                         AccountMeta_readonly(mint.key),
                         AccountMeta_writable(destination.key),
                         authority_meta(source_account_authority, account_signers)>>,
                       <<source_account, mint, destination, source_account_authority>>,
                       account_signers, 4 + MAX_MULTISIG_SIGNERS)
      IN  Invoke(a,
                 transfer_checked_with_fee_instruction_data(amount, decimals, fee),
                 seeds)

\* TransferCheckedWithFee (instructions/extensions/transfer_fee).
extensions_TransferCheckedWithFee_invoke(source_account, mint, destination, source_account_authority, amount, decimals, fee, signers) ==
    IF too_many_signers(signers) THEN Rejected("InvalidArgument")
    ELSE
      LET a == fan_out(<<AccountMeta_writable(source_account.key),
                         AccountMeta_readonly(mint.key),
                         AccountMeta_writable(destination.key),
                         authority_meta(source_account_authority, signers)>>,
                       <<source_account, mint, destination, source_account_authority>>,
                       signers, 4 + MAX_MULTISIG_SIGNERS)
      IN  Invoke(a,
                 extensions_transfer_checked_with_fee_data(amount, decimals, fee),
                 <<>>)

\* WithdrawWithheldTokensFromMint (instructions/extension/transfer_fee).
WithdrawWithheldTokensFromMint_invoke_signed(mint, destination, withdraw_withheld_authority, account_signers, seeds) ==
    IF too_many_signers(account_signers) THEN Rejected("InvalidArgument")
    ELSE
      LET a == fan_out(<<AccountMeta_writable(mint.key),
                         AccountMeta_writable(destination.key),
                         authority_meta(withdraw_withheld_authority, account_signers)>>,
                       <<mint, destination, withdraw_withheld_authority>>,
                       account_signers, 3 + MAX_MULTISIG_SIGNERS)
      IN  Invoke(a,
                 <<TRANSFER_FEE_EXTENSION, WITHDRAW_WITHHELD_TOKENS_FROM_MINT>>,
                 seeds)

\* Mutant: the arity check only rejects a list shorter than declared.
arity_mismatch_OnlyShort(source_accounts, num_token_accounts) ==
    Len(source_accounts) < num_token_accounts

\* if source_accounts.len() != num_token_accounts as usize
arity_mismatch(source_accounts, num_token_accounts) ==
    Len(source_accounts) # num_token_accounts

\* Mutant: the total is compared with the ceiling plus the signer ceiling.
too_many_accounts_Loose(total) == total > MAX_CPI_ACCOUNTS + MAX_MULTISIG_SIGNERS

\* if total > MAX_CPI_ACCOUNTS
too_many_accounts(total) == total > MAX_CPI_ACCOUNTS

source_metas(source_accounts) ==
    [i \in 1..Len(source_accounts) |-> AccountMeta_writable(source_accounts[i].key)]

\* Mutant: the source accounts are written before the signers.
withdraw_arrays_SourcesFirst(mint, destination, withdraw_withheld_authority, num_token_accounts, signers, source_accounts) ==
    LET num_accounts == 3 + num_token_accounts + Len(signers)
        m0 == zip_write([i \in 1..MAX_CPI_ACCOUNTS |-> UNINIT_META], 0,
                  <<AccountMeta_readonly(mint.key),
                    AccountMeta_writable(destination.key),
                    authority_meta(withdraw_withheld_authority, signers)>>)
        m1 == zip_write(m0, 3, source_metas(source_accounts))
        acc_metas == zip_write(m1, 3 + Len(source_accounts), signer_metas(signers))
        i0 == zip_write([i \in 1..MAX_CPI_ACCOUNTS |-> UNINIT_INFO], 0,
                  <<mint, destination, withdraw_withheld_authority>>)
        i1 == zip_write(i0, 3, source_accounts)
        acc_infos == zip_write(i1, 3 + Len(source_accounts), signers)
    IN  [metas |-> from_raw_parts(acc_metas, num_accounts, UNINIT_META),
         infos |-> from_raw_parts(acc_infos, num_accounts, UNINIT_INFO),
         writes |-> 6 + 2 * Len(signers) + 2 * Len(source_accounts),
         cap |-> MAX_CPI_ACCOUNTS,
         top |-> 3 + Len(signers) + Len(source_accounts)]

\* The arrays of WithdrawWithheldTokensFromAccounts, capacity
\* MAX_CPI_ACCOUNTS: three fixed slots, the signers from slot 3, the source
\* accounts from slot 3 + signers.len().
withdraw_arrays(mint, destination, withdraw_withheld_authority, num_token_accounts, signers, source_accounts) ==
    LET num_accounts == 3 + num_token_accounts + Len(signers)
        m0 == zip_write([i \in 1..MAX_CPI_ACCOUNTS |-> UNINIT_META], 0,
                  <<AccountMeta_readonly(mint.key),
                    AccountMeta_writable(destination.key),
                    authority_meta(withdraw_withheld_authority, signers)>>)
        m1 == zip_write(m0, 3, signer_metas(signers))
        acc_metas == zip_write(m1, 3 + Len(signers), source_metas(source_accounts))
        i0 == zip_write([i \in 1..MAX_CPI_ACCOUNTS |-> UNINIT_INFO], 0,
                  <<mint, destination, withdraw_withheld_authority>>)
        i1 == zip_write(i0, 3, signers)
        acc_infos == zip_write(i1, 3 + Len(signers), source_accounts)
        ns == zip_count(m0, 3, signers)
        nq == zip_count(m1, 3 + Len(signers), source_accounts)
    IN  [metas |-> from_raw_parts(acc_metas, num_accounts, UNINIT_META),
         infos |-> from_raw_parts(acc_infos, num_accounts, UNINIT_INFO),
         writes |-> 6 + 2 * ns + 2 * nq,
         cap |-> MAX_CPI_ACCOUNTS,
         top |-> IF nq > 0 THEN 3 + Len(signers) + nq ELSE 3 + ns]

\* WithdrawWithheldTokensFromAccounts (instructions/extensions/transfer_fee).
WithdrawWithheldTokensFromAccounts_invoke(mint, destination, withdraw_withheld_authority, num_token_accounts, signers, source_accounts) ==
    IF too_many_signers(signers) THEN Rejected("InvalidArgument")
    ELSE IF arity_mismatch(source_accounts, num_token_accounts)
    THEN Rejected("InvalidArgument")
    ELSE IF too_many_accounts(3 + num_token_accounts + Len(signers))
    THEN Rejected("InvalidArgument")
    ELSE Invoke(withdraw_arrays(mint, destination, withdraw_withheld_authority,
                                num_token_accounts, signers, source_accounts),
                <<26, 3, num_token_accounts>>, <<>>)

\* HarvestWithheldTokensToMint (instructions/extension/transfer_fee): arrays
\* of capacity 1 + MAX_CPI_ACCOUNTS, the mint then the source accounts.
HarvestWithheldTokensToMint_invoke_signed(mint, source_accounts, seeds) ==
    IF too_many_accounts(1 + Len(source_accounts)) THEN Rejected("InvalidArgument")
    ELSE
      LET cap == 1 + MAX_CPI_ACCOUNTS
          num_accounts == 1 + Len(source_accounts)
          m0 == zip_write([i \in 1..cap |-> UNINIT_META], 0,
                          <<AccountMeta_writable(mint.key)>>)
          acc_metas == zip_write(m0, 1, source_metas(source_accounts))
          i0 == zip_write([i \in 1..cap |-> UNINIT_INFO], 0, <<mint>>)
          acc_infos == zip_write(i0, 1, source_accounts)
          nq == zip_count(m0, 1, source_accounts)
      IN  Invoke([metas |-> from_raw_parts(acc_metas, num_accounts, UNINIT_META),
                  infos |-> from_raw_parts(acc_infos, num_accounts, UNINIT_INFO),
                  writes |-> 2 + 2 * nq, cap |-> cap, top |-> 1 + nq],
                 <<TRANSFER_FEE_EXTENSION, WITHDRAW_WITHHELD_TOKENS_FROM_MINT>>,
                 seeds)

\* InitializeConfidentialTransferFeeConfig: two descriptors, one account
\* reference; unwrapping an absent authority panics before anything is built.
InitializeConfidentialTransferFeeConfig_invoke_signed(mint, authority, withdraw_withheld_authority_elgamal_pubkey, seeds) ==
    IF ~authority.some THEN Rejected("panic")
    ELSE
      LET account_metas == <<AccountMeta_writable(mint.key),
                             AccountMeta_readonly_signer(authority.val)>>
      IN  Invoke([metas |-> account_metas, infos |-> <<mint>>,
                  writes |-> 3, cap |-> 2, top |-> 2],
                 initialize_confidential_transfer_fee_config_instruction_data(
                     authority, withdraw_withheld_authority_elgamal_pubkey),
                 seeds)

\* ------------------------------------------- metadata pointer extension
METADATA_POINTER_EXTENSION_DISCRIMINATOR == 39
MetadataPointerInstruction_Initialize == 0
MetadataPointerInstruction_Update == 1

\* Mutant: the metadata-pointer module writes an absent address as 32 bytes
\* of 255.
metadata_pointer_write_optional_pubkey_OnesWhenNone(out, lo, pubkey) ==
    [out |-> IF pubkey.some
             THEN write_bytes(out, lo, lo + 32, Pubkey_bytes(pubkey.val))
             ELSE write_bytes(out, lo, lo + 32, [i \in 1..32 |-> 255]),
     len |-> 32]

\* metadata_pointer::state::write_optional_pubkey on destination =
\* out[lo..lo + 32]: the address bytes, or 32 zero bytes; always 32.
metadata_pointer_write_optional_pubkey(out, lo, pubkey) ==
    [out |-> IF pubkey.some
             THEN write_bytes(out, lo, lo + 32, Pubkey_bytes(pubkey.val))
             ELSE write_bytes(out, lo, lo + 32, [i \in 1..32 |-> 0]),
     len |-> 32]

encode_initialize_instruction_data(out, authority, metadata_address) ==
    LET d1 == write_bytes(out, 0, 1, <<METADATA_POINTER_EXTENSION_DISCRIMINATOR>>)
        d2 == write_bytes(d1, 1, 2, <<MetadataPointerInstruction_Initialize>>)
        d3 == metadata_pointer_write_optional_pubkey(d2, 2, authority).out
        d4 == metadata_pointer_write_optional_pubkey(d3, 34, metadata_address).out
    IN  [out |-> d4, written |-> 66]

\* Mutant: the update encoder leaves the address field zero whatever the
\* address.
encode_update_instruction_data_DropsAddress(out, new_metadata_address) ==
    LET d1 == write_bytes(out, 0, 1, <<METADATA_POINTER_EXTENSION_DISCRIMINATOR>>)
        d2 == write_bytes(d1, 1, 2, <<MetadataPointerInstruction_Update>>)
        d3 == write_bytes(d2, 2, 34, [i \in 1..32 |-> 0])
    IN  [out |-> d3, written |-> 34]

encode_update_instruction_data(out, new_metadata_address) ==
    LET d1 == write_bytes(out, 0, 1, <<METADATA_POINTER_EXTENSION_DISCRIMINATOR>>)
        d2 == write_bytes(d1, 1, 2, <<MetadataPointerInstruction_Update>>)
        d3 == metadata_pointer_write_optional_pubkey(d2, 2, new_metadata_address).out
    IN  [out |-> d3, written |-> 34]

MetadataPointerInitialize_invoke_signed(mint, authority, metadata_address, seeds) ==
    LET account_metas == <<AccountMeta_writable(mint.key)>>
        e == encode_initialize_instruction_data(uninit_buffer(66), authority, metadata_address)
    IN  Invoke([metas |-> account_metas, infos |-> <<mint>>,
                writes |-> 2, cap |-> 1, top |-> 1],
               from_raw_parts(e.out, e.written, UNINIT_BYTE), seeds)

MetadataPointerUpdate_invoke_signed(mint, authority, new_metadata_address, seeds) ==
    LET account_metas == <<AccountMeta_writable(mint.key),
                           AccountMeta_readonly_signer(authority.key)>>
        e == encode_update_instruction_data(uninit_buffer(34), new_metadata_address)
    IN  Invoke([metas |-> account_metas, infos |-> <<mint, authority>>,
                writes |-> 4, cap |-> 2, top |-> 2],
               from_raw_parts(e.out, e.written, UNINIT_BYTE), seeds)

\* --------------------------------------------- transfer hook extension
TRANSFER_HOOK_EXTENSION_DISCRIMINATOR == 36
INITIALIZE_DISCRIMINATOR == 0
UPDATE_DISCRIMINATOR == 1

\* Mutant: the presence flag is written after the address instead of before.
transfer_hook_write_optional_pubkey_FlagLast(instruction_data, offset, pubkey) ==
    IF pubkey.some
    THEN [out |-> [write_bytes(instruction_data, offset, offset + 32,
                               Pubkey_bytes(pubkey.val))
                     EXCEPT ![offset + 33] = 1],
          len |-> 1 + 32]
    ELSE [out |-> [instruction_data EXCEPT ![offset + 1] = 0], len |-> 1]

\* transfer_hook::write_optional_pubkey on destination =
\* instruction_data[offset..]: the flag 1 and the address, or the flag 0 alone.
transfer_hook_write_optional_pubkey(instruction_data, offset, pubkey) ==
    IF pubkey.some
    THEN [out |-> write_bytes([instruction_data EXCEPT ![offset + 1] = 1],
                              offset + 1, offset + 33, Pubkey_bytes(pubkey.val)),
          len |-> 1 + 32]
    ELSE [out |-> [instruction_data EXCEPT ![offset + 1] = 0], len |-> 1]

\* [UNINIT_BYTE; 68] and [UNINIT_BYTE; 35]
transfer_hook_initialize_capacity == 68

transfer_hook_update_capacity == 35

\* The slices of the instruction buffer one write_optional_pubkey call at
\* `offset` writes into: destination[0], then destination[1..33] when present.
transfer_hook_optional_pubkey_slices(offset, pubkey) ==
    IF pubkey.some
    THEN <<<<offset, offset + 1>>, <<offset + 1, offset + 33>>>>
    ELSE <<<<offset, offset + 1>>>>

\* Mutant: the program id is written in front of the authority.
transfer_hook_initialize_data_ProgramIdFirst(authority, transfer_hook_program_id) ==
    LET d1 == write_bytes(uninit_buffer(68), 0, 1, <<TRANSFER_HOOK_EXTENSION_DISCRIMINATOR>>)
        d2 == write_bytes(d1, 1, 2, <<INITIALIZE_DISCRIMINATOR>>)
        p == transfer_hook_write_optional_pubkey(d2, 2, transfer_hook_program_id)
        a == transfer_hook_write_optional_pubkey(p.out, 2 + p.len, authority)
    IN  from_raw_parts(a.out, 2 + p.len + a.len, UNINIT_BYTE)

\* The data TransferHookInitialize::invoke_signed builds: the cursor `offset`
\* moves by what each write returned.
transfer_hook_initialize_data(authority, transfer_hook_program_id) ==
    LET d1 == write_bytes(uninit_buffer(transfer_hook_initialize_capacity), 0, 1, <<TRANSFER_HOOK_EXTENSION_DISCRIMINATOR>>)
        d2 == write_bytes(d1, 1, 2, <<INITIALIZE_DISCRIMINATOR>>)
        a == transfer_hook_write_optional_pubkey(d2, 2, authority)
        p == transfer_hook_write_optional_pubkey(a.out, 2 + a.len, transfer_hook_program_id)
    IN  from_raw_parts(p.out, 2 + a.len + p.len, UNINIT_BYTE)

\* The data TransferHookUpdate::invoke_signed builds.
transfer_hook_update_data(new_transfer_hook_program_id) ==
    LET d1 == write_bytes(uninit_buffer(transfer_hook_update_capacity), 0, 1, <<TRANSFER_HOOK_EXTENSION_DISCRIMINATOR>>)
        d2 == write_bytes(d1, 1, 2, <<UPDATE_DISCRIMINATOR>>)
        p == transfer_hook_write_optional_pubkey(d2, 2, new_transfer_hook_program_id)
    IN  from_raw_parts(p.out, 2 + p.len, UNINIT_BYTE)

\* The slices TransferHookInitialize::invoke_signed writes into, in order.
transfer_hook_initialize_writes(authority, transfer_hook_program_id) ==
    LET auth_len == transfer_hook_write_optional_pubkey(
                        uninit_buffer(transfer_hook_initialize_capacity), 2, authority).len
    IN  <<<<0, 1>>, <<1, 2>>>>
          \o transfer_hook_optional_pubkey_slices(2, authority)
          \o transfer_hook_optional_pubkey_slices(2 + auth_len, transfer_hook_program_id)

\* The slices TransferHookUpdate::invoke_signed writes into, in order.
transfer_hook_update_writes(new_transfer_hook_program_id) ==
    <<<<0, 1>>, <<1, 2>>>>
      \o transfer_hook_optional_pubkey_slices(2, new_transfer_hook_program_id)

TransferHookInitialize_invoke_signed(mint, authority, transfer_hook_program_id, seeds) ==
    LET account_metas == <<AccountMeta_writable(mint.key)>>
    IN  Invoke([metas |-> account_metas, infos |-> <<mint>>,
                writes |-> 2, cap |-> 1, top |-> 1],
               transfer_hook_initialize_data(authority, transfer_hook_program_id),
               seeds)

TransferHookUpdate_invoke_signed(mint, authority, new_transfer_hook_program_id, seeds) ==
    LET account_metas == <<AccountMeta_writable(mint.key),
                           AccountMeta_readonly_signer(authority.key)>>
    IN  Invoke([metas |-> account_metas, infos |-> <<mint, authority>>,
                writes |-> 4, cap |-> 2, top |-> 2],
               transfer_hook_update_data(new_transfer_hook_program_id), seeds)

\* ------------------------------------------------ InitializeNonTransferableMint
INITIALIZE_NON_TRANSFERABLE_MINT == 32

InitializeNonTransferableMint_invoke_signed(mint, seeds) ==
    LET account_metas == <<AccountMeta_writable(mint.key)>>
    IN  Invoke([metas |-> account_metas, infos |-> <<mint>>,
                writes |-> 2, cap |-> 1, top |-> 1],
               <<INITIALIZE_NON_TRANSFERABLE_MINT>>, seeds)

\* ------------------------------------------------ UpdateInterestBearingMintRate
InterestBearingMintInstruction_UpdateRate == 1

\* i16::to_le_bytes: the two's complement of the rate, low byte first.
i16_to_le_bytes(v) == u16_to_le_bytes((v + 65536) % 65536)

\* The descriptor UpdateInterestBearingMintRate pushes for each signer.
interest_bearing_signer_metas(signers) ==
    [i \in 1..Len(signers) |-> AccountMeta_readonly(signers[i].key)]

\* Two growable vectors: [mint, rate_authority] and then every signer; the
\* call goes out through slice_invoke, with no seeds.
UpdateInterestBearingMintRate_invoke(mint, rate_authority, signers, new_rate) ==
    LET accounts == <<AccountMeta_writable(mint.key),
                      AccountMeta_readonly(rate_authority.key)>>
                      \o interest_bearing_signer_metas(signers)
        d1 == write_bytes(uninit_buffer(3), 0, 1,
                          <<InterestBearingMintInstruction_UpdateRate>>)
        ix_data == write_bytes(d1, 1, 3, i16_to_le_bytes(new_rate))
        cpi_accounts == <<mint, rate_authority>> \o signers
    IN  Invoke([metas |-> accounts, infos |-> cpi_accounts,
                writes |-> Len(accounts) + Len(cpi_accounts),
                cap |-> Len(accounts), top |-> Len(accounts)],
               from_raw_parts(ix_data, 3, UNINIT_BYTE), <<>>)

\* ------------------------------------------ InitializeTransferFeeConfig
\* An instruction buffer under construction: the bytes, and the slice
\* <<lo, hi>> each write_bytes call was handed, in order.
new_encoding(cap) == [buf |-> uninit_buffer(cap), writes |-> <<>>]

put(e, lo, hi, source) ==
    [buf |-> write_bytes(e.buf, lo, hi, source),
     writes |-> Append(e.writes, <<lo, hi>>)]

\* What an encoder hands on: the first `length` bytes of the buffer.
encoded(e, length) ==
    [data |-> from_raw_parts(e.buf, length, UNINIT_BYTE),
     writes |-> e.writes, cap |-> Len(e.buf)]

\* Mutant: the buffer of the encoder is one byte short.
initialize_transfer_fee_config_capacity_OneByteShort == 72 - 1

\* [UNINIT_BYTE; 72]
initialize_transfer_fee_config_capacity == 72

\* instructions/extension/transfer_fee: one cursor `offset` moved by every
\* field; each flag is written 0 first and overwritten with 1 when the
\* authority is present.
initialize_transfer_fee_config_instruction_data(transfer_fee_config_authority, withdraw_withheld_authority, transfer_fee_basis_points, maximum_fee) ==
    LET cap == initialize_transfer_fee_config_capacity
        e1 == put(new_encoding(cap), 0, cap,
                  <<TRANSFER_FEE_EXTENSION, INITIALIZE_TRANSFER_FEE_CONFIG>>)
        o1 == 2
        e2 == put(e1, o1, o1 + 1, <<0>>)
        o2 == o1 + 1
        e3 == IF transfer_fee_config_authority.some
              THEN put(put(e2, o2 - 1, o2, <<1>>), o2, o2 + 32,
                       Pubkey_bytes(transfer_fee_config_authority.val))
              ELSE e2
        o3 == IF transfer_fee_config_authority.some THEN o2 + 32 ELSE o2
        e4 == put(e3, o3, o3 + 1, <<0>>)
        o4 == o3 + 1
        e5 == IF withdraw_withheld_authority.some
              THEN put(put(e4, o4 - 1, o4, <<1>>), o4, o4 + 32,
                       Pubkey_bytes(withdraw_withheld_authority.val))
              ELSE e4
        o5 == IF withdraw_withheld_authority.some THEN o4 + 32 ELSE o4
        e6 == put(e5, o5, o5 + 2, u16_to_le_bytes(transfer_fee_basis_points))
        o6 == o5 + 2
        e7 == put(e6, o6, o6 + 2, u16_to_le_bytes(maximum_fee))
        o7 == o6 + 2
    IN  encoded(e7, o7)

\* instructions/extensions/transfer_fee: one branch per combination of
\* present authorities, with literal offsets and lengths.
extensions_initialize_transfer_fee_config_data(transfer_fee_config_authority, withdraw_withheld_authority, transfer_fee_basis_points, maximum_fee) ==
    LET e0 == put(new_encoding(72), 0, 72, <<26, 0>>)
        bp == u16_to_le_bytes(transfer_fee_basis_points)
        mf == u16_to_le_bytes(maximum_fee)
    IN  IF transfer_fee_config_authority.some
        THEN LET e1 == put(put(e0, 2, 3, <<1>>), 3, 35,
                           Pubkey_bytes(transfer_fee_config_authority.val))
             IN  IF withdraw_withheld_authority.some
                 THEN LET e2 == put(put(e1, 35, 36, <<1>>), 36, 68,
                                    Pubkey_bytes(withdraw_withheld_authority.val))
                      IN  encoded(put(put(e2, 68, 70, bp), 70, 72, mf), 72)
                 ELSE LET e2 == put(e1, 35, 36, <<0>>)
                      IN  encoded(put(put(e2, 36, 38, bp), 38, 40, mf), 40)
        ELSE IF withdraw_withheld_authority.some
        THEN LET e1 == put(e0, 2, 3, <<0>>)
                 e2 == put(put(e1, 3, 4, <<1>>), 4, 36,
                           Pubkey_bytes(withdraw_withheld_authority.val))
             IN  encoded(put(put(e2, 36, 38, bp), 38, 40, mf), 40)
        ELSE LET e1 == put(put(e0, 2, 3, <<0>>), 3, 4, <<0>>)
             IN  encoded(put(put(e1, 4, 6, bp), 6, 8, mf), 8)

InitializeTransferFeeConfig_invoke_signed(mint, transfer_fee_config_authority, withdraw_withheld_authority, transfer_fee_basis_points, maximum_fee, seeds) ==
    LET account_metas == <<AccountMeta_writable(mint.key)>>
    IN  Invoke([metas |-> account_metas, infos |-> <<mint>>,
                writes |-> 2, cap |-> 1, top |-> 1],
               initialize_transfer_fee_config_instruction_data(
                   transfer_fee_config_authority, withdraw_withheld_authority,
                   transfer_fee_basis_points, maximum_fee).data,
               seeds)

extensions_InitializeTransferFeeConfig_invoke(mint, transfer_fee_config_authority, withdraw_withheld_authority, transfer_fee_basis_points, maximum_fee) ==
    LET account_metas == <<AccountMeta_writable(mint.key)>>
    IN  Invoke([metas |-> account_metas, infos |-> <<mint>>,
                writes |-> 2, cap |-> 1, top |-> 1],
               extensions_initialize_transfer_fee_config_data(
                   transfer_fee_config_authority, withdraw_withheld_authority,
                   transfer_fee_basis_points, maximum_fee).data,
               <<>>)

\* ------------------------------------------------ account buffers tried
\* Entry kinds laid out in generated buffers: the three registered kinds
\* above plus a 16-bit type the registry does not know.
EntryTypes == {9, 12, 13, 28}
EntryLens == {0, 2, 32}
\* Each registered kind with its declared length, the two mint kinds also
\* with a length that is not theirs, and the unknown type.
Entries ==
    {e \in [type : EntryTypes, len : EntryLens] :
        \/ e.type = 9 /\ e.len \in {0, 2}
        \/ e.type = 12 /\ e.len \in {2, 32}
        \/ e.type = 13 /\ e.len = 0
        \/ e.type = 28 /\ e.len = 0}

\* One TLV entry as bytes: type, length, then a payload that depends on the
\* entry and on the position in it.
EntryBytes(e) ==
    u16_to_le_bytes(e.type) \o u16_to_le_bytes(e.len)
      \o [j \in 1..e.len |-> (e.type * 16 + j) % 256]

RECURSIVE Concat(_)
Concat(ss) == IF ss = <<>> THEN <<>> ELSE Head(ss) \o Concat(Tail(ss))

EntryLists == UNION {[1..n -> Entries] : n \in 0..MaxEntries}

\* A base state of `base` zero bytes (fixed fields, padding, account type)
\* followed by the entries.
AccountBuffer(es) ==
    [i \in 1..(TokenAccount_BASE_LEN + EXTENSION_START_OFFSET) |-> 0]
      \o Concat([k \in 1..Len(es) |-> EntryBytes(es[k])])

ShortLens == {0, Mint_BASE_LEN, TokenAccount_BASE_LEN}

\* ----------------------------------------------------------------- state
VARIABLES
    op,        \* the operation that ran last
    buf,       \* scanner: the account buffer scanned
    target,    \* scanner: the extension kind asked for
    scan,      \* scanner: the result
    signers,   \* builder: the multisig signer accounts passed
    sources,   \* builder: the source accounts passed
    args,      \* builder: the other fields of the call
    out        \* builder: what the call did and returned

vars == <<op, buf, target, scan, signers, sources, args, out>>

NoScan == ScanOut("idle", <<>>, 0, {}, <<>>)

None_Pubkey == [some |-> FALSE, val |-> Pubkey_default]
Some_Pubkey(pk) == [some |-> TRUE, val |-> pk]

\* The fields a builder may carry besides its account lists.
NoArgs ==
    [num_token_accounts |-> 0, transfer_fee_basis_points |-> 0,
     maximum_fee |-> <<0, 0, 0, 0>>, amount |-> <<0, 0, 0, 0>>, decimals |-> 0,
     fee |-> <<0, 0, 0, 0>>, authority |-> None_Pubkey, elgamal |-> <<>>,
     metadata_address |-> None_Pubkey, program_id |-> None_Pubkey,
     withdraw_withheld_authority |-> None_Pubkey, maximum_fee_u16 |-> 0,
     new_rate |-> 0,
     variant |-> "", seeds |-> <<>>]

\* What the host answers to a cross-program call: success, or an error of
\* the invoked program. The host is a black box to this layer.
HostResults == {"Ok", "Err"}

\* Values a never-written byte may turn out to hold.
UninitValues == {0, 255}

UninitAt(data) == {i \in 1..Len(data) : data[i] = UNINIT_BYTE}

\* The outcome of a builder call: the builder's early error, or the host's
\* answer to the one call made; never-written data bytes hold whatever g says.
Outcome(plan, host, g) ==
    [result |-> IF plan.status = "invoke" THEN host ELSE plan.status,
     host |-> IF plan.status = "invoke" THEN host ELSE "none",
     metas |-> plan.metas, infos |-> plan.infos,
     data |-> [i \in 1..Len(plan.data) |->
                  IF plan.data[i] = UNINIT_BYTE THEN g[i] ELSE plan.data[i]],
     uninit |-> {i - 1 : i \in UninitAt(plan.data)},
     seeds |-> plan.seeds, writes |-> plan.writes, calls |-> plan.calls,
     cap |-> plan.cap, top |-> plan.top]

NoOut == Outcome(Rejected("none"), "Ok", <<>>)

Init ==
    /\ op = "init"
    /\ buf = <<>>
    /\ target = NonTransferable
    /\ scan = NoScan
    /\ signers = <<>>
    /\ sources = <<>>
    /\ args = NoArgs
    /\ out = NoOut

\* Every call starts from the state after construction (op = "init"): the
\* library keeps nothing between calls.
\* A generated buffer, whole or cut short, is scanned for one kind.
Buffers ==
    UNION {
      LET full == AccountBuffer(es)
      IN  {SubSeq(full, 1, Len(full) - d) : d \in 0..Min(MaxCut, Len(full))}
            \cup {SubSeq(full, 1, n) : n \in ShortLens}
      : es \in EntryLists }

GetExtensionFromBytes ==
    /\ op = "init"
    /\ \E b \in Buffers, T \in Extensions :
        /\ op' = "get_extension_from_bytes"
        /\ buf' = b
        /\ target' = T
        /\ scan' = get_extension_from_bytes(b, T)
    /\ UNCHANGED <<signers, sources, args, out>>

GetExtensionDataBytesForVariablePack ==
    /\ op = "init"
    /\ \E b \in Buffers, T \in Extensions :
        /\ op' = "get_extension_data_bytes_for_variable_pack"
        /\ buf' = b
        /\ target' = T
        /\ scan' = get_extension_data_bytes_for_variable_pack(b, T)
    /\ UNCHANGED <<signers, sources, args, out>>

\* The two-byte values tried: every low byte under a few high bytes.
U16Bytes == {<<lo, hi>> : lo \in 0..255, hi \in {0, 1, 2, 127, 255}}

\* ExtensionType::from_bytes(val), and to_bytes of the variant it gave: buf
\* holds val, args.variant the variant, scan.payload the bytes to_bytes made.
ExtensionTypeFromBytes ==
    /\ op = "init"
    /\ \E val \in U16Bytes :
        LET r == ExtensionType_from_bytes_variant(val)
        IN  /\ op' = "ExtensionType::from_bytes"
            /\ buf' = val
            /\ args' = [NoArgs EXCEPT !.variant = r.variant]
            /\ scan' = ScanOut(IF r.some THEN "Some" ELSE "None",
                               IF r.some THEN ExtensionType_to_bytes(r.variant)
                                         ELSE <<>>,
                               0, {}, <<>>)
    /\ UNCHANGED <<target, signers, sources, out>>

\* variant.to_bytes(), and from_bytes of the bytes it gave: args.variant
\* holds the variant, buf the bytes, scan.res whether from_bytes gave Some.
ExtensionTypeToBytes ==
    /\ op = "init"
    /\ \E i \in 1..Len(ExtensionTypeVariants) :
        LET b == ExtensionType_to_bytes(ExtensionTypeVariants[i])
            r == ExtensionType_from_bytes_variant(b)
        IN  /\ op' = "ExtensionType::to_bytes"
            /\ buf' = b
            /\ args' = [NoArgs EXCEPT !.variant = ExtensionTypeVariants[i]]
            /\ scan' = ScanOut(IF r.some THEN "Some" ELSE "None",
                               IF r.some THEN <<r.variant>> ELSE <<>>,
                               0, {}, <<>>)
    /\ UNCHANGED <<target, signers, sources, out>>

\* ------------------------------------------------------- builder inputs
mint == AccountInfo(1)
authority == AccountInfo(2)
destination == AccountInfo(3)
source_account == AccountInfo(4)

\* Signer lists of every length up to MaxSigners, in ascending and in
\* descending address order.
SignerLists ==
    {[i \in 1..k |-> AccountInfo(100 + ((i * st) % 17))] :
        k \in 0..MaxSigners, st \in {1, 16}}

SourceLists ==
    {[i \in 1..n |-> AccountInfo(200 + ((i * st) % 101))] :
        n \in 0..MaxSources, st \in {1, 100}}

SeedSets == {<<>>, <<"pda">>}
U16s == {0, 150, 256, 65535}
\* 0, 1_000_000, 0x0807060504030201 and u64::MAX as 16-bit limbs.
U64s == {<<0, 0, 0, 0>>, <<16960, 15, 0, 0>>, <<513, 1027, 1541, 2055>>,
         <<65535, 65535, 65535, 65535>>}
U8s == {0, 9, 255}

\* The outcomes a builder call can have: one per answer of the host and per
\* content of the never-written data bytes.
Outcomes(plan) ==
    {Outcome(plan, host, g) :
        host \in HostResults, g \in [UninitAt(plan.data) -> UninitValues]}

\* What is read through a slice whose array died with the encoder that
\* returned it (from_raw_parts over a local of a function that has returned):
\* the bytes written if the frame is untouched, or whatever later frames
\* left there.  The length travels in the slice itself.
dangling_slice(data) ==
    {data} \cup {[i \in 1..Len(data) |-> b] : b \in UninitValues}

\* The outcomes of a builder whose data comes from such an encoder.
DanglingOutcomes(plan) ==
    UNION {Outcomes([plan EXCEPT !.data = d]) : d \in dangling_slice(plan.data)}

Pause ==
    /\ op = "init"
    /\ \E sg \in SignerLists, seeds \in SeedSets :
        /\ op' = "Pause"
        /\ signers' = sg
        /\ sources' = <<>>
        /\ args' = [NoArgs EXCEPT !.seeds = seeds]
        /\ out' \in Outcomes(Pause_invoke_signed(mint, authority, sg, seeds))
    /\ UNCHANGED <<buf, target, scan>>

SetTransferFee ==
    /\ op = "init"
    /\ \E sg \in SignerLists, seeds \in SeedSets, bp \in U16s, mf \in U64s :
        /\ op' = "SetTransferFee"
        /\ signers' = sg
        /\ sources' = <<>>
        /\ args' = [NoArgs EXCEPT !.seeds = seeds,
                                  !.transfer_fee_basis_points = bp,
                                  !.maximum_fee = mf]
        /\ out' \in DanglingOutcomes(
               SetTransferFee_invoke_signed(mint, authority, bp, mf, sg, seeds))
    /\ UNCHANGED <<buf, target, scan>>

ExtensionsSetTransferFee ==
    /\ op = "init"
    /\ \E sg \in SignerLists, bp \in U16s, mf \in U64s :
        /\ op' = "extensions::SetTransferFee"
        /\ signers' = sg
        /\ sources' = <<>>
        /\ args' = [NoArgs EXCEPT !.transfer_fee_basis_points = bp,
                                  !.maximum_fee = mf]
        /\ out' \in Outcomes(
               extensions_SetTransferFee_invoke(mint, authority, bp, mf, sg))
    /\ UNCHANGED <<buf, target, scan>>

TransferCheckedWithFee ==
    /\ op = "init"
    /\ \E sg \in SignerLists, seeds \in SeedSets, am \in U64s, de \in U8s,
          fe \in U64s :
        /\ op' = "TransferCheckedWithFee"
        /\ signers' = sg
        /\ sources' = <<>>
        /\ args' = [NoArgs EXCEPT !.seeds = seeds, !.amount = am,
                                  !.decimals = de, !.fee = fe]
        /\ out' \in DanglingOutcomes(
               TransferCheckedWithFee_invoke_signed(source_account, mint,
                   destination, authority, am, de, fe, sg, seeds))
    /\ UNCHANGED <<buf, target, scan>>

ExtensionsTransferCheckedWithFee ==
    /\ op = "init"
    /\ \E sg \in SignerLists, am \in U64s, de \in U8s, fe \in U64s :
        /\ op' = "extensions::TransferCheckedWithFee"
        /\ signers' = sg
        /\ sources' = <<>>
        /\ args' = [NoArgs EXCEPT !.amount = am, !.decimals = de, !.fee = fe]
        /\ out' \in Outcomes(
               extensions_TransferCheckedWithFee_invoke(source_account, mint,
                   destination, authority, am, de, fe, sg))
    /\ UNCHANGED <<buf, target, scan>>

WithdrawWithheldTokensFromMint ==
    /\ op = "init"
    /\ \E sg \in SignerLists, seeds \in SeedSets :
        /\ op' = "WithdrawWithheldTokensFromMint"
        /\ signers' = sg
        /\ sources' = <<>>
        /\ args' = [NoArgs EXCEPT !.seeds = seeds]
        /\ out' \in Outcomes(
               WithdrawWithheldTokensFromMint_invoke_signed(mint, destination,
                   authority, sg, seeds))
    /\ UNCHANGED <<buf, target, scan>>

\* The declared count is a u8: the list's length, or one off it.
WithdrawWithheldTokensFromAccounts ==
    /\ op = "init"
    /\ \E sg \in SignerLists, sc \in SourceLists :
        \E n \in {Len(sc) - 1, Len(sc), Len(sc) + 1} \cap 0..255 :
          /\ op' = "WithdrawWithheldTokensFromAccounts"
          /\ signers' = sg
          /\ sources' = sc
          /\ args' = [NoArgs EXCEPT !.num_token_accounts = n]
          /\ out' \in Outcomes(
                 WithdrawWithheldTokensFromAccounts_invoke(mint, destination,
                     authority, n, sg, sc))
    /\ UNCHANGED <<buf, target, scan>>

HarvestWithheldTokensToMint ==
    /\ op = "init"
    /\ \E sc \in SourceLists, seeds \in SeedSets :
        /\ op' = "HarvestWithheldTokensToMint"
        /\ signers' = <<>>
        /\ sources' = sc
        /\ args' = [NoArgs EXCEPT !.seeds = seeds]
        /\ out' \in Outcomes(HarvestWithheldTokensToMint_invoke_signed(mint, sc, seeds))
    /\ UNCHANGED <<buf, target, scan>>

ElGamalKeys == {[i \in 1..ELGAMAL_PUBKEY_LEN |-> (b + i) % 256] : b \in {0, 200}}

InitializeConfidentialTransferFeeConfig ==
    /\ op = "init"
    /\ \E au \in {None_Pubkey, Some_Pubkey(2), Some_Pubkey(5)},
          eg \in ElGamalKeys, seeds \in SeedSets :
        /\ op' = "InitializeConfidentialTransferFeeConfig"
        /\ signers' = <<>>
        /\ sources' = <<>>
        /\ args' = [NoArgs EXCEPT !.seeds = seeds, !.authority = au,
                                  !.elgamal = eg]
        /\ out' \in DanglingOutcomes(
               InitializeConfidentialTransferFeeConfig_invoke_signed(mint, au, eg,
                                                                     seeds))
    /\ UNCHANGED <<buf, target, scan>>

\* Optional addresses tried: absent, the all-zero address, and two others.
OptPubkeys ==
    {None_Pubkey, Some_Pubkey(Pubkey_default), Some_Pubkey(5), Some_Pubkey(6)}

MetadataPointerInitialize ==
    /\ op = "init"
    /\ \E au \in OptPubkeys, ma \in OptPubkeys, seeds \in SeedSets :
        /\ op' = "MetadataPointerInitialize"
        /\ signers' = <<>>
        /\ sources' = <<>>
        /\ args' = [NoArgs EXCEPT !.seeds = seeds, !.authority = au,
                                  !.metadata_address = ma]
        /\ out' \in Outcomes(
               MetadataPointerInitialize_invoke_signed(mint, au, ma, seeds))
    /\ UNCHANGED <<buf, target, scan>>

MetadataPointerUpdate ==
    /\ op = "init"
    /\ \E ma \in OptPubkeys, seeds \in SeedSets :
        /\ op' = "MetadataPointerUpdate"
        /\ signers' = <<>>
        /\ sources' = <<>>
        /\ args' = [NoArgs EXCEPT !.seeds = seeds, !.metadata_address = ma]
        /\ out' \in Outcomes(
               MetadataPointerUpdate_invoke_signed(mint, authority, ma, seeds))
    /\ UNCHANGED <<buf, target, scan>>

TransferHookInitialize ==
    /\ op = "init"
    /\ \E au \in OptPubkeys, pid \in OptPubkeys, seeds \in SeedSets :
        /\ op' = "TransferHookInitialize"
        /\ signers' = <<>>
        /\ sources' = <<>>
        /\ args' = [NoArgs EXCEPT !.seeds = seeds, !.authority = au,
                                  !.program_id = pid]
        /\ out' \in Outcomes(
               TransferHookInitialize_invoke_signed(mint, au, pid, seeds))
    /\ UNCHANGED <<buf, target, scan>>

TransferHookUpdate ==
    /\ op = "init"
    /\ \E pid \in OptPubkeys, seeds \in SeedSets :
        /\ op' = "TransferHookUpdate"
        /\ signers' = <<>>
        /\ sources' = <<>>
        /\ args' = [NoArgs EXCEPT !.seeds = seeds, !.program_id = pid]
        /\ out' \in Outcomes(
               TransferHookUpdate_invoke_signed(mint, authority, pid, seeds))
    /\ UNCHANGED <<buf, target, scan>>

InitializeTransferFeeConfig ==
    /\ op = "init"
    /\ \E au \in OptPubkeys, wa \in OptPubkeys, bp \in U16s, mf \in U16s,
          seeds \in SeedSets :
        /\ op' = "InitializeTransferFeeConfig"
        /\ signers' = <<>>
        /\ sources' = <<>>
        /\ args' = [NoArgs EXCEPT !.seeds = seeds, !.authority = au,
                                  !.withdraw_withheld_authority = wa,
                                  !.transfer_fee_basis_points = bp,
                                  !.maximum_fee_u16 = mf]
        /\ out' \in DanglingOutcomes(
               InitializeTransferFeeConfig_invoke_signed(mint, au, wa, bp, mf, seeds))
    /\ UNCHANGED <<buf, target, scan>>

ExtensionsInitializeTransferFeeConfig ==
    /\ op = "init"
    /\ \E au \in OptPubkeys, wa \in OptPubkeys, bp \in U16s, mf \in U16s :
        /\ op' = "extensions::InitializeTransferFeeConfig"
        /\ signers' = <<>>
        /\ sources' = <<>>
        /\ args' = [NoArgs EXCEPT !.authority = au,
                                  !.withdraw_withheld_authority = wa,
                                  !.transfer_fee_basis_points = bp,
                                  !.maximum_fee_u16 = mf]
        /\ out' \in Outcomes(
               extensions_InitializeTransferFeeConfig_invoke(mint, au, wa, bp, mf))
    /\ UNCHANGED <<buf, target, scan>>

InitializeNonTransferableMint ==
    /\ op = "init"
    /\ \E seeds \in SeedSets :
        /\ op' = "InitializeNonTransferableMint"
        /\ signers' = <<>>
        /\ sources' = <<>>
        /\ args' = [NoArgs EXCEPT !.seeds = seeds]
        /\ out' \in Outcomes(InitializeNonTransferableMint_invoke_signed(mint, seeds))
    /\ UNCHANGED <<buf, target, scan>>

I16s == {0 - 32768, 0 - 1, 0, 500, 32767}

UpdateInterestBearingMintRate ==
    /\ op = "init"
    /\ \E sg \in SignerLists, new_rate \in I16s :
        /\ op' = "UpdateInterestBearingMintRate"
        /\ signers' = sg
        /\ sources' = <<>>
        /\ args' = [NoArgs EXCEPT !.new_rate = new_rate]
        /\ out' \in Outcomes(
               UpdateInterestBearingMintRate_invoke(mint, authority, sg, new_rate))
    /\ UNCHANGED <<buf, target, scan>>

\* ------------------------------------------------------- scanner claims
ScannerRan ==
    op \in {"get_extension_from_bytes", "get_extension_data_bytes_for_variable_pack"}

\* The TLV region of the scanned buffer and its length.
RegionLen == Len(buf) - ext_start(target)
Region == Slice(buf, ext_start(target), Len(buf))

\* The scan read a complete header at cursor c whose length field puts the
\* end of the payload past the end of the buffer.
OverrunAt(c) ==
    /\ c + EXTENSION_TYPE_LEN + EXTENSION_LENGTH_LEN <= RegionLen
    /\ ExtensionType_from_bytes(Slice(Region, c, c + 2)).some
    /\ c + 4 + u16_from_le_bytes(Slice(Region, c + 2, c + 4)) > RegionLen

MetOverrun ==
    /\ ScannerRan
    /\ RegionLen >= 0
    /\ \E k \in 1..Len(scan.cursors) : OverrunAt(scan.cursors[k])

\* C1: when the scan meets a header whose length field places the payload end
\* beyond the end of the buffer, the scan ends with None and no byte at or
\* beyond the buffer length is accessed.
C1_OverrunEndsNotPresent ==
    MetOverrun =>
        /\ scan.res = "None"
        /\ \A r \in scan.reads : ext_start(target) + r < Len(buf)

\* Fewer than 4 bytes remain at a cursor the scan reached inside the region.
TruncatedHeaderAtCursor ==
    /\ ScannerRan
    /\ RegionLen >= 0
    /\ \E k \in 1..Len(scan.cursors) :
           /\ scan.cursors[k] < RegionLen
           /\ RegionLen - scan.cursors[k] < EXTENSION_TYPE_LEN + EXTENSION_LENGTH_LEN

\* C2: when fewer than 4 bytes remain at the scan cursor, both scanners
\* return None instead of faulting.
C2_TruncatedHeaderNotPresent ==
    TruncatedHeaderAtCursor => scan.res = "None"


\* The complete entries laid out in region r from offset c on, in order:
\* type, length field and the offset of the payload.
RECURSIVE RegionEntries(_, _)
RegionEntries(r, c) ==
    IF c + 4 > Len(r) THEN <<>>
    ELSE LET ty == u16_from_le_bytes(Slice(r, c, c + 2))
             ln == u16_from_le_bytes(Slice(r, c + 2, c + 4))
         IN  IF c + 4 + ln > Len(r) THEN <<>>
             ELSE <<[type |-> ty, len |-> ln, at |-> c + 4]>>
                    \o RegionEntries(r, c + 4 + ln)

Laid == IF RegionLen >= 0 THEN RegionEntries(Region, 0) ELSE <<>>

LaidEnd == IF Laid = <<>> THEN 0 ELSE Laid[Len(Laid)].at + Laid[Len(Laid)].len

\* The scanned region is made only of complete entries with registry-known
\* types.
CompleteKnownRegion ==
    /\ ScannerRan
    /\ RegionLen >= 0
    /\ LaidEnd = RegionLen
    /\ \A k \in 1..Len(Laid) : Laid[k].type \in 0..27

\* The entries of the target's type, and those the fixed-size rule accepts.
OfTargetType == {k \in 1..Len(Laid) : Laid[k].type = target.TYPE}
FixedMatches == {k \in OfTargetType : Laid[k].len = target.BASE_LEN}

First(S) == CHOOSE k \in S : \A j \in S : k <= j

\* The header offsets of entries 1..n.
HeaderOffsets(n) == [k \in 1..n |-> Laid[k].at - 4]

\* C16: get_extension_from_bytes returns a view only from an entry whose
\* type is the target's and whose length field equals BASE_LEN; an entry of
\* the target type with another length is never returned, and when it is the
\* only entry of that type the result is None.
C16_LengthMismatchNotPresent ==
    (op = "get_extension_from_bytes" /\ RegionLen >= 0) =>
        /\ scan.res = "Some" =>
             \E k \in FixedMatches : Laid[k].at = scan.at
        /\ (Cardinality(OfTargetType) = 1 /\ FixedMatches = {}) =>
             scan.res = "None"

\* C17: on a region of complete entries with known types,
\* get_extension_from_bytes starts at Mint::BASE_LEN + 83 + 1 or
\* TokenAccount::BASE_LEN + 1, moves the cursor by 4 + length past every
\* entry that is not a match, returns the BASE_LEN payload bytes after the
\* header of the first entry with the target type and length BASE_LEN, and
\* returns None exactly when there is no such entry.
C17_FixedScan ==
    (CompleteKnownRegion /\ op = "get_extension_from_bytes") =>
        /\ ext_start(target) = IF target.BASE_STATE = "Mint"
                               THEN Mint_BASE_LEN + 83 + 1
                               ELSE TokenAccount_BASE_LEN + 1
        /\ (scan.res = "None") = (FixedMatches = {})
        /\ FixedMatches = {} => scan.cursors = HeaderOffsets(Len(Laid))
        /\ FixedMatches # {} =>
             LET k == First(FixedMatches)
             IN  /\ scan.res = "Some"
                 /\ scan.cursors = HeaderOffsets(k)
                 /\ scan.at = Laid[k].at
                 /\ scan.payload =
                      SubSeq(buf, ext_start(target) + Laid[k].at + 1,
                             ext_start(target) + Laid[k].at + target.BASE_LEN)

\* The 32-byte payload of a PermanentDelegate entry was returned after the
\* cursor skipped an entry in front of it.
C17_Witness ==
    /\ CompleteKnownRegion
    /\ op = "get_extension_from_bytes"
    /\ target = PermanentDelegate
    /\ scan.res = "Some"
    /\ Len(scan.payload) = 32
    /\ Len(scan.cursors) >= 2

\* C18: on a region of complete entries with known types,
\* get_extension_data_bytes_for_variable_pack returns exactly the `length`
\* payload bytes after the header of the first entry of the target's type,
\* whatever the length (0 included), and None exactly when there is none.
C18_VariableScan ==
    (CompleteKnownRegion /\ op = "get_extension_data_bytes_for_variable_pack") =>
        /\ (scan.res = "None") = (OfTargetType = {})
        /\ OfTargetType # {} =>
             LET k == First(OfTargetType)
             IN  /\ scan.res = "Some"
                 /\ scan.at = Laid[k].at
                 /\ Len(scan.payload) = Laid[k].len
                 /\ scan.payload =
                      SubSeq(buf, ext_start(target) + Laid[k].at + 1,
                             ext_start(target) + Laid[k].at + Laid[k].len)

\* A payload whose length is not the kind's BASE_LEN was returned from
\* behind another entry.
C18_Witness ==
    /\ CompleteKnownRegion
    /\ op = "get_extension_data_bytes_for_variable_pack"
    /\ scan.res = "Some"
    /\ Len(scan.payload) = 2
    /\ target.BASE_LEN # 2
    /\ Len(scan.cursors) >= 2

\* The buffer that holds entry k of the scanned region and nothing else.
AloneBuffer(k) ==
    SubSeq(buf, 1, ext_start(target))
      \o SubSeq(buf, ext_start(target) + Laid[k].at - 4 + 1,
                ext_start(target) + Laid[k].at + Laid[k].len)

\* C19: regions that hold the same complete entry for kind E2 and differ only
\* in the order or number of the other entries (complete, of other known
\* kinds) give the same payload when scanned for E2: each gives what the
\* region holding that entry alone gives.
C19_ScanInvariance ==
    (CompleteKnownRegion /\ Cardinality(OfTargetType) = 1) =>
        LET alone == scan_from(AloneBuffer(First(OfTargetType)), target,
                               op = "get_extension_from_bytes")
        IN  /\ scan.res = alone.res
            /\ scan.payload = alone.payload

\* E2's entry was found between two entries of two other kinds.
C19_Witness ==
    /\ CompleteKnownRegion
    /\ Cardinality(OfTargetType) = 1
    /\ Len(Laid) = 3
    /\ First(OfTargetType) = 2
    /\ Laid[1].type # Laid[3].type
    /\ scan.res = "Some"
    /\ Len(scan.payload) = 32

\* 16-bit values ExtensionType::from_bytes maps to None today.
NewKinds == {28}

\* C20: adding a kind to the registry leaves the result of scanning for
\* every kind known before unchanged on every buffer, also where an entry
\* of the new kind precedes the target's entry.
C20_AdditiveCompatibility ==
    ScannerRan =>
        \A new \in NewKinds :
            LET after == scan_from_in(RegisteredTypes \cup {new}, buf, target,
                                      op = "get_extension_from_bytes")
            IN  /\ after.res = scan.res
                /\ after.payload = scan.payload

\* The last cursor the scan stood on, and whether the entry there is one the
\* scan returns from.
LastCursor == scan.cursors[Len(scan.cursors)]

MatchAt(c) ==
    /\ u16_from_le_bytes(Slice(Region, c, c + 2)) = target.TYPE
    /\ op = "get_extension_from_bytes" =>
         u16_from_le_bytes(Slice(Region, c + 2, c + 4)) = target.BASE_LEN

\* The scan skipped the entry at its last cursor and that took the cursor to
\* or past the end of the region; or the region was empty from the start.
CursorPassedEnd ==
    /\ ScannerRan
    /\ RegionLen >= 0
    /\ \/ RegionLen = 0
       \/ /\ scan.cursors # <<>>
          /\ LastCursor + 4 <= RegionLen
          /\ ExtensionType_from_bytes(Slice(Region, LastCursor, LastCursor + 2)).some
          /\ ~MatchAt(LastCursor)
          /\ LastCursor + 4
               + u16_from_le_bytes(Slice(Region, LastCursor + 2, LastCursor + 4))
               >= RegionLen

\* C21: the scan loop of both scanners terminates on every buffer: the
\* cursor grows by at least 4 on every iteration that does not return, every
\* iteration starts inside the region, and once the cursor reaches or passes
\* the end of the region without a match the result is None.
C21_ScanTerminates ==
    ScannerRan =>
        /\ scan.res \in {"None", "Some", "panic"}
        /\ \A k \in 1..Len(scan.cursors) :
             /\ scan.cursors[k] >= 0
             /\ scan.cursors[k] < RegionLen
             /\ k > 1 => scan.cursors[k] >= scan.cursors[k - 1] + 4
        /\ 4 * Len(scan.cursors) <= RegionLen + 3 \/ RegionLen < 0
        /\ CursorPassedEnd => scan.res = "None"

\* Three entries were skipped one after the other and the cursor came to the
\* end of the region.
C21_Witness ==
    /\ CursorPassedEnd
    /\ Len(scan.cursors) = 3
    /\ LastCursor > 8
    /\ scan.res = "None"

\* C22: ExtensionType::from_bytes is total over the 16-bit values: each of
\* 0..27 gives the variant with that number, every other value gives None;
\* from_bytes(to_bytes(v)) = Some(v) for every variant v, and
\* to_bytes(from_bytes(b)) = b for every recognised b.
C22_FromBytesTotalAndInverse ==
    /\ op = "ExtensionType::from_bytes" =>
         LET v == buf[1] + 256 * buf[2]
         IN  /\ scan.res \in {"Some", "None"}
             /\ (scan.res = "Some") = (v \in 0..27)
             /\ scan.res = "Some" =>
                  /\ args.variant = ExtensionTypeVariants[v + 1]
                  /\ scan.payload = buf
    /\ op = "ExtensionType::to_bytes" =>
         /\ scan.res = "Some"
         /\ scan.payload = <<args.variant>>

\* PausableAccount, the last variant, went to bytes [27, 0] and back.
C22_Witness ==
    /\ op = "ExtensionType::to_bytes"
    /\ args.variant = "PausableAccount"
    /\ buf = <<27, 0>>
    /\ scan.res = "Some"

\* ------------------------------------------------------- builder claims
\* The builders with a fixed-capacity signer fan-out.
FanOutOps ==
    {"Pause", "SetTransferFee", "extensions::SetTransferFee",
     "TransferCheckedWithFee", "extensions::TransferCheckedWithFee",
     "WithdrawWithheldTokensFromMint", "WithdrawWithheldTokensFromAccounts"}

RejectedBeforeAnyWrite ==
    /\ out.result = "InvalidArgument"
    /\ out.writes = 0
    /\ out.calls = 0

\* Account x is in the call: a reference to it, with its descriptor at the
\* same position.
InCall(x) ==
    \E j \in 1..Len(out.infos) :
        /\ out.infos[j] = x
        /\ j <= Len(out.metas)
        /\ out.metas[j].pubkey = x.key

AllSignersInCall ==
    /\ out.calls = 1
    /\ \A i \in 1..Len(signers) :
          \E j \in 1..Len(out.metas) :
              /\ out.metas[j] = AccountMeta_readonly_signer(signers[i].key)
              /\ out.infos[j] = signers[i]

\* C3 as stated: 12 or more signers are rejected with InvalidArgument before
\* any array write or call; exactly 11 signers are not rejected and the call
\* is attempted with all 11 signers present.
C3_ElevenSignersAlwaysAccepted ==
    op \in FanOutOps =>
        /\ Len(signers) >= MAX_MULTISIG_SIGNERS + 1 => RejectedBeforeAnyWrite
        /\ Len(signers) = MAX_MULTISIG_SIGNERS => AllSignersInCall

\* The other pre-flight checks of the call pass (only
\* WithdrawWithheldTokensFromAccounts has any).
OtherChecksPass ==
    op = "WithdrawWithheldTokensFromAccounts" =>
        /\ args.num_token_accounts = Len(sources)
        /\ 3 + args.num_token_accounts + Len(signers) <= MAX_CPI_ACCOUNTS

\* C3 (amended): 12 or more signers are rejected with InvalidArgument before
\* any array write or call; exactly 11 signers pass the signer bound, and the
\* call is attempted with all 11 signers present whenever the builder's other
\* pre-flight checks (arity and total account count) pass too.
C3_SignerBound ==
    op \in FanOutOps =>
        /\ Len(signers) >= MAX_MULTISIG_SIGNERS + 1 => RejectedBeforeAnyWrite
        /\ (Len(signers) = MAX_MULTISIG_SIGNERS /\ OtherChecksPass)
              => AllSignersInCall

C3_Witness ==
    /\ op = "WithdrawWithheldTokensFromAccounts"
    /\ Len(signers) = MAX_MULTISIG_SIGNERS
    /\ Len(sources) = 2
    /\ AllSignersInCall

\* Position (1-based) of the authority's descriptor in each fan-out builder.
AuthorityAt ==
    CASE op \in {"Pause", "SetTransferFee", "extensions::SetTransferFee"} -> 2
      [] op \in {"TransferCheckedWithFee", "extensions::TransferCheckedWithFee"} -> 4
      [] OTHER -> 3

\* C4: with an empty signer list the authority descriptor is read-only +
\* signer and no further signer descriptor follows; with k signers
\* (1 <= k <= 11) it is read-only and not signer, and exactly k
\* read-only-signer descriptors follow it in the order of the signer list.
\* Pause gives [writable(mint), signer(authority)] and, with two signers,
\* [writable(mint), readonly(authority), signer(s1), signer(s2)].
C4_AuthorityRule ==
    (op \in FanOutOps /\ out.calls = 1) =>
        LET a == AuthorityAt
            k == Len(signers)
            m == out.metas
        IN  /\ a <= Len(m)
            /\ k = 0 =>
                 /\ m[a] = AccountMeta_readonly_signer(authority.key)
                 /\ \A j \in (a + 1)..Len(m) : ~m[j].is_signer
            /\ k >= 1 =>
                 /\ k <= MAX_MULTISIG_SIGNERS
                 /\ m[a] = AccountMeta_readonly(authority.key)
                 /\ Len(m) >= a + k
                 /\ \A i \in 1..k :
                        m[a + i] = AccountMeta_readonly_signer(signers[i].key)
                 /\ \A j \in (a + k + 1)..Len(m) : ~m[j].is_signer
            /\ (op = "Pause" /\ k = 0) =>
                 m = <<AccountMeta_writable(mint.key),
                       AccountMeta_readonly_signer(authority.key)>>
            /\ (op = "Pause" /\ k = 2) =>
                 m = <<AccountMeta_writable(mint.key),
                       AccountMeta_readonly(authority.key),
                       AccountMeta_readonly_signer(signers[1].key),
                       AccountMeta_readonly_signer(signers[2].key)>>

C4_Witness ==
    /\ op = "TransferCheckedWithFee"
    /\ Len(signers) = 2
    /\ signers[1].key > signers[2].key
    /\ out.calls = 1

\* C5: in every call made, the descriptor list and the account-reference
\* list have the same length, and the descriptor at each position carries
\* the address of the account reference at that position.
C5_ParallelArrays ==
    out.calls = 1 =>
        /\ Len(out.metas) = Len(out.infos)
        /\ \A i \in 1..Len(out.metas) : out.metas[i].pubkey = out.infos[i].key

\* C6: every byte of the instruction data handed to the call has been
\* written by some field write; no never-written byte is part of it.
C6_NoUninitByteExposed ==
    out.calls = 1 => out.uninit = {}

\* C7: WithdrawWithheldTokensFromAccounts returns InvalidArgument whenever
\* num_token_accounts differs from the length of source_accounts, before any
\* array element is written and before any call.
C7_ArityMismatchRejected ==
    (op = "WithdrawWithheldTokensFromAccounts"
        /\ args.num_token_accounts # Len(sources)) => RejectedBeforeAnyWrite

C7_Witness ==
    /\ op = "WithdrawWithheldTokensFromAccounts"
    /\ args.num_token_accounts = 3
    /\ Len(sources) = 2
    /\ Len(signers) <= MAX_MULTISIG_SIGNERS
    /\ RejectedBeforeAnyWrite

\* C8: WithdrawWithheldTokensFromAccounts rejects when
\* 3 + num_token_accounts + signers.len() exceeds MAX_CPI_ACCOUNTS, and
\* HarvestWithheldTokensToMint when 1 + source_accounts.len() does, before
\* any array write or call; an accepted call holds every supplied signer and
\* source account, and no slot at or beyond the capacity is written.
C8_TotalBound ==
    /\ (op = "WithdrawWithheldTokensFromAccounts"
          /\ 3 + args.num_token_accounts + Len(signers) > MAX_CPI_ACCOUNTS)
         => RejectedBeforeAnyWrite
    /\ (op = "HarvestWithheldTokensToMint"
          /\ 1 + Len(sources) > MAX_CPI_ACCOUNTS)
         => RejectedBeforeAnyWrite
    /\ (op \in {"WithdrawWithheldTokensFromAccounts", "HarvestWithheldTokensToMint"}
          /\ out.calls = 1)
         => /\ \A i \in 1..Len(signers) : InCall(signers[i])
            /\ \A i \in 1..Len(sources) : InCall(sources[i])
            /\ out.top <= out.cap
            /\ Len(out.metas) <= out.cap
            /\ Len(out.infos) <= out.cap

C8_Witness ==
    /\ op = "WithdrawWithheldTokensFromAccounts"
    /\ out.calls = 1
    /\ Len(signers) = MAX_MULTISIG_SIGNERS
    /\ Len(out.metas) = MAX_CPI_ACCOUNTS

\* C9: with M signers and N source accounts the account list of
\* WithdrawWithheldTokensFromAccounts has 3 + M + N entries: mint,
\* destination (writable), authority, the M signers at 3..3+M in list order,
\* the N source accounts as writable at 3+M..3+M+N in list order; the data is
\* [26, 3, N].
C9_WithdrawLayout ==
    (op = "WithdrawWithheldTokensFromAccounts" /\ out.calls = 1) =>
        LET M == Len(signers)
            N == Len(sources)
            m == out.metas
            r == out.infos
        IN  /\ Len(m) = 3 + M + N
            /\ Len(r) = 3 + M + N
            /\ m[1].pubkey = mint.key /\ r[1] = mint
            /\ m[2] = AccountMeta_writable(destination.key) /\ r[2] = destination
            /\ m[3].pubkey = authority.key /\ r[3] = authority
            /\ \A i \in 1..M : m[3 + i].pubkey = signers[i].key /\ r[3 + i] = signers[i]
            /\ \A j \in 1..N :
                   /\ m[3 + M + j] = AccountMeta_writable(sources[j].key)
                   /\ r[3 + M + j] = sources[j]
            /\ out.data = <<26, 3, N>>

C9_Witness ==
    /\ op = "WithdrawWithheldTokensFromAccounts"
    /\ out.calls = 1
    /\ Len(signers) = 2
    /\ Len(sources) = 3
    /\ sources[1].key > sources[2].key

\* The 8 bytes at data[off .. off+8) (0-based) are the little-endian bytes of
\* the u64 v: each pair of bytes is one 16-bit limb, low byte first.
IsU64LeAt(data, off, v) ==
    \A i \in 1..4 :
        /\ data[off + 2 * i - 1] \in 0..255
        /\ data[off + 2 * i] \in 0..255
        /\ data[off + 2 * i - 1] + 256 * data[off + 2 * i] = v[i]

\* C10: SetTransferFee's data is exactly 12 bytes: [26, 5], basis_points
\* little-endian at [2..4], maximum_fee little-endian at [4..12] (150 and
\* 1_000_000 give [26,5,0x96,0,0x40,0x42,0x0F,0,0,0,0,0]);
\* TransferCheckedWithFee's is exactly 19 bytes: [26, 1], amount at [2..10],
\* decimals at [10], fee at [11..19].
C10_FeeEncodings ==
    /\ (op \in {"SetTransferFee", "extensions::SetTransferFee"} /\ out.calls = 1) =>
        LET d == out.data IN
        /\ Len(d) = 12
        /\ d[1] = 26 /\ d[2] = 5
        /\ d[3] \in 0..255 /\ d[4] \in 0..255
        /\ d[3] + 256 * d[4] = args.transfer_fee_basis_points
        /\ IsU64LeAt(d, 4, args.maximum_fee)
        /\ (args.transfer_fee_basis_points = 150
              /\ args.maximum_fee = <<16960, 15, 0, 0>>)
             => d = <<26, 5, 150, 0, 64, 66, 15, 0, 0, 0, 0, 0>>
    /\ (op \in {"TransferCheckedWithFee", "extensions::TransferCheckedWithFee"}
          /\ out.calls = 1) =>
        LET d == out.data IN
        /\ Len(d) = 19
        /\ d[1] = 26 /\ d[2] = 1
        /\ IsU64LeAt(d, 2, args.amount)
        /\ d[11] = args.decimals
        /\ IsU64LeAt(d, 11, args.fee)


\* ------------------------------------------------ optional-value claims
\* Convention B (zero-fill): the address bytes, or 32 zero bytes.
ZeroFill(p) == IF p.some THEN Pubkey_bytes(p.val) ELSE [i \in 1..32 |-> 0]

\* Convention A (presence-flag): flag 1 and the address bytes, or flag 0.
PresenceFlag(p) == IF p.some THEN <<1>> \o Pubkey_bytes(p.val) ELSE <<0>>

\* C11: the metadata-pointer encoders produce fixed-length zero-fill data:
\* Update is 34 bytes, [39, 1] then the address bytes or 32 zero bytes;
\* Initialize is 66 bytes, [39, 0], authority at [2..34] and metadata
\* address at [34..66], each the address bytes or 32 zero bytes.
C11_MetadataPointerZeroFill ==
    /\ op = "MetadataPointerUpdate" =>
         /\ Len(out.data) = 34
         /\ out.data = <<39, 1>> \o ZeroFill(args.metadata_address)
    /\ op = "MetadataPointerInitialize" =>
         /\ Len(out.data) = 66
         /\ SubSeq(out.data, 1, 2) = <<39, 0>>
         /\ SubSeq(out.data, 3, 34) = ZeroFill(args.authority)
         /\ SubSeq(out.data, 35, 66) = ZeroFill(args.metadata_address)

\* MetadataPointerUpdate{new_metadata_address: None} was encoded.
C11_Witness ==
    /\ op = "MetadataPointerUpdate"
    /\ ~args.metadata_address.some
    /\ out.data = <<39, 1>> \o [i \in 1..32 |-> 0]

\* C12: TransferHookInitialize always encodes exactly 66 bytes, zero-fill:
\* [36, 0], authority at [2..34], hook program id at [34..66], an absent
\* value being 32 zero bytes.
C12_TransferHookInitializeZeroFill ==
    op = "TransferHookInitialize" =>
        /\ Len(out.data) = 66
        /\ out.data = <<36, 0>> \o ZeroFill(args.authority)
                                \o ZeroFill(args.program_id)

\* The destinations write_optional_pubkey is handed: <<capacity, offset>> of
\* the module's tests and of the two builders.
HookDestinations == {<<33, 0>>, <<68, 2>>, <<68, 3>>, <<68, 35>>, <<35, 2>>}

\* C13: transfer_hook::write_optional_pubkey writes flag 0 and returns 1 for
\* None; writes flag 1 at destination[0], the 32 address bytes at
\* destination[1..33] and returns 33 for Some; and writes nothing at or
\* beyond the returned length.
C13_PresenceFlagWrite ==
    op \in {"TransferHookInitialize", "TransferHookUpdate"} =>
      \A p \in {args.authority, args.program_id}, d \in HookDestinations :
        LET r == transfer_hook_write_optional_pubkey(uninit_buffer(d[1]), d[2], p)
        IN  /\ r.len = IF p.some THEN 33 ELSE 1
            /\ r.out[d[2] + 1] = IF p.some THEN 1 ELSE 0
            /\ p.some => Slice(r.out, d[2] + 1, d[2] + 33) = Pubkey_bytes(p.val)
            /\ \A i \in 1..d[1] :
                 (i - 1 < d[2] \/ i - 1 >= d[2] + r.len) => r.out[i] = UNINIT_BYTE

\* An update that carries an address was encoded with the flag in front.
C13_Witness ==
    /\ op = "TransferHookUpdate"
    /\ args.program_id.some
    /\ Len(out.data) = 35
    /\ out.data[3] = 1

\* Whether the data in the state could have come from no other input of the
\* operation that ran.
OnlyThisInputEncodesTo(inputs) ==
    CASE op = "TransferHookUpdate" ->
           \A q \in inputs : q # args.program_id =>
               transfer_hook_update_data(q) # out.data
      [] op = "TransferHookInitialize" ->
           \A qa \in inputs, qp \in inputs :
               <<qa, qp>> # <<args.authority, args.program_id>> =>
                   transfer_hook_initialize_data(qa, qp) # out.data
      [] op = "MetadataPointerUpdate" ->
           \A q \in inputs : q # args.metadata_address =>
               LET e == encode_update_instruction_data(uninit_buffer(34), q)
               IN  from_raw_parts(e.out, e.written, UNINIT_BYTE) # out.data
      [] op = "MetadataPointerInitialize" ->
           \A qa \in inputs, qm \in inputs :
               <<qa, qm>> # <<args.authority, args.metadata_address>> =>
                   LET e == encode_initialize_instruction_data(uninit_buffer(66), qa, qm)
                   IN  from_raw_parts(e.out, e.written, UNINIT_BYTE) # out.data
      [] OTHER -> TRUE

\* C14 as stated: under both conventions, presence-flag and zero-fill, two
\* different inputs, None and every 32-byte address alike, never encode to
\* the same bytes (so decoding returns the original input).
C14_EveryInputRoundTrips == OnlyThisInputEncodesTo(OptPubkeys)

ZeroFillOps == {"MetadataPointerUpdate", "MetadataPointerInitialize"}

\* C14 amended: under the presence-flag convention two different inputs never
\* encode to the same bytes; under the zero-fill convention the same holds
\* for None and every address other than the all-zero address, which
\* encodes to the bytes of None.
C14_RoundTripBarZeroAddress ==
    /\ op \notin ZeroFillOps => OnlyThisInputEncodesTo(OptPubkeys)
    /\ (/\ op \in ZeroFillOps
        /\ args.authority # Some_Pubkey(Pubkey_default)
        /\ args.metadata_address # Some_Pubkey(Pubkey_default))
         => OnlyThisInputEncodesTo(OptPubkeys \ {Some_Pubkey(Pubkey_default)})

\* A metadata address other than zero was encoded zero-fill.
C14_Witness ==
    /\ op = "MetadataPointerUpdate"
    /\ args.metadata_address = Some_Pubkey(5)
    /\ SubSeq(out.data, 3, 34) = Pubkey_bytes(5)

\* C15: TransferHookInitialize's data is [36, 0], the presence-flag encoding
\* of the authority, then at once that of the hook program id; its length
\* is 4, 36 or 68, and with the authority present the program-id flag is at
\* offset 35. TransferHookUpdate's data is [36, 1] and the presence-flag
\* encoding of the new program id: 3 bytes for None, 35 for Some.
C15_TransferHookPresenceFlagLayout ==
    /\ op = "TransferHookInitialize" =>
         /\ out.data = <<36, 0>> \o PresenceFlag(args.authority)
                                 \o PresenceFlag(args.program_id)
         /\ Len(out.data) = 2 + Len(PresenceFlag(args.authority))
                              + Len(PresenceFlag(args.program_id))
         /\ Len(out.data) \in {4, 36, 68}
         /\ args.authority.some =>
              out.data[36] = IF args.program_id.some THEN 1 ELSE 0
    /\ op = "TransferHookUpdate" =>
         /\ out.data = <<36, 1>> \o PresenceFlag(args.program_id)
         /\ Len(out.data) = IF args.program_id.some THEN 35 ELSE 3

\* An initialize without authority but with a program id: 36 bytes, the
\* program-id flag directly after the authority's flag.
C15_Witness ==
    /\ op = "TransferHookInitialize"
    /\ ~args.authority.some
    /\ args.program_id.some
    /\ Len(out.data) = 36
    /\ out.data[3] = 0
    /\ out.data[4] = 1

\* ------------------------------------------------- capacity of encoders
VariableLengthOps ==
    {"TransferHookInitialize", "TransferHookUpdate",
     "InitializeTransferFeeConfig", "extensions::InitializeTransferFeeConfig"}

\* The encoding the variable-length encoder of the call made works out:
\* the slices written, the capacity of its buffer and the bytes handed on.
VariableEncoding ==
    CASE op = "TransferHookInitialize" ->
           [data |-> transfer_hook_initialize_data(args.authority, args.program_id),
            writes |-> transfer_hook_initialize_writes(args.authority, args.program_id),
            cap |-> transfer_hook_initialize_capacity]
      [] op = "TransferHookUpdate" ->
           [data |-> transfer_hook_update_data(args.program_id),
            writes |-> transfer_hook_update_writes(args.program_id),
            cap |-> transfer_hook_update_capacity]
      [] op = "InitializeTransferFeeConfig" ->
           initialize_transfer_fee_config_instruction_data(
               args.authority, args.withdraw_withheld_authority,
               args.transfer_fee_basis_points, args.maximum_fee_u16)
      [] op = "extensions::InitializeTransferFeeConfig" ->
           extensions_initialize_transfer_fee_config_data(
               args.authority, args.withdraw_withheld_authority,
               args.transfer_fee_basis_points, args.maximum_fee_u16)

\* C23: the variable-length encoders (TransferHookInitialize, capacity 68;
\* TransferHookUpdate, capacity 35; both InitializeTransferFeeConfig
\* encoders, capacity 72) never write at or beyond the capacity of their
\* buffer, and the length handed on is at most the capacity, whichever
\* optional values are present.
C23_WritesWithinCapacity ==
    op \in VariableLengthOps =>
        LET e == VariableEncoding
        IN  /\ e.cap = IF op = "TransferHookInitialize" THEN 68
                       ELSE IF op = "TransferHookUpdate" THEN 35 ELSE 72
            /\ \A k \in 1..Len(e.writes) :
                   /\ 0 =< e.writes[k][1]
                   /\ e.writes[k][1] < e.writes[k][2]
                   /\ e.writes[k][2] =< e.cap
            /\ Len(e.data) =< e.cap
            /\ Len(out.data) = Len(e.data)
            /\ out.uninit = {}

\* Both authorities present in the cursor-driven encoder: the last write
\* ends exactly at the capacity and all 72 bytes are handed on.
C23_Witness ==
    /\ op = "InitializeTransferFeeConfig"
    /\ args.authority.some
    /\ args.withdraw_withheld_authority.some
    /\ Len(out.data) = 72
    /\ \E k \in 1..Len(VariableEncoding.writes) :
           VariableEncoding.writes[k] = <<70, 72>>

\* ------------------------------------------------- one call per invocation
BuilderOps ==
    FanOutOps \cup VariableLengthOps \cup
    {"HarvestWithheldTokensToMint", "InitializeConfidentialTransferFeeConfig",
     "MetadataPointerInitialize", "MetadataPointerUpdate",
     "InitializeNonTransferableMint", "UpdateInterestBearingMintRate"}

\* The pre-flight checks of the builder called reject its input.
PreflightRejects ==
    \/ op \in FanOutOps /\ too_many_signers(signers)
    \/ /\ op = "WithdrawWithheldTokensFromAccounts"
       /\ \/ arity_mismatch(sources, args.num_token_accounts)
          \/ too_many_accounts(3 + args.num_token_accounts + Len(signers))
    \/ op = "HarvestWithheldTokensToMint" /\ too_many_accounts(1 + Len(sources))

\* Every slot of both arrays handed to the host has been written.
ArraysPopulated ==
    /\ \A j \in 1..Len(out.metas) : out.metas[j] # UNINIT_META
    /\ \A j \in 1..Len(out.infos) : out.infos[j] # UNINIT_INFO

\* C24: every builder makes at most one cross-program call per invocation:
\* none when a pre-flight check rejects the input, exactly one otherwise,
\* issued only after all checks have passed and both arrays are fully
\* populated; the builder's result is exactly the result the host returned
\* for that call, with no retry.
C24_OneCallPerInvocation ==
    op \in BuilderOps =>
        /\ out.calls \in {0, 1}
        /\ PreflightRejects =>
             /\ out.calls = 0
             /\ out.host = "none"
             /\ out.result = "InvalidArgument"
        /\ ~PreflightRejects =>
             /\ out.calls = 1
             /\ ArraysPopulated
             /\ out.host \in HostResults
             /\ out.result = out.host

\* ------------------------------------------------ harvest, interest rate
\* C25: HarvestWithheldTokensToMint sends the data
\* [TRANSFER_FEE_EXTENSION, HARVEST_WITHHELD_TOKENS_TO_MINT] = [26, 4] with
\* the account list [writable(mint), writable(source_1), ...,
\* writable(source_N)] in source-list order.
C25_HarvestCall ==
    (op = "HarvestWithheldTokensToMint" /\ out.calls = 1) =>
        /\ out.data = <<TRANSFER_FEE_EXTENSION, HARVEST_WITHHELD_TOKENS_TO_MINT>>
        /\ out.data = <<26, 4>>
        /\ out.metas = <<AccountMeta_writable(mint.key)>> \o source_metas(sources)

\* C26: UpdateInterestBearingMintRate follows the authority rule and bound of
\* the other builders: with an empty signer list the rate-authority
\* descriptor is marked signer; with a non-empty list the rate authority is
\* read-only and every listed signer is appended as a read-only descriptor
\* with the signer flag set; more than MAX_MULTISIG_SIGNERS signers are
\* rejected.
C26_InterestRateAuthorityRule ==
    op = "UpdateInterestBearingMintRate" =>
        /\ Len(signers) > MAX_MULTISIG_SIGNERS => RejectedBeforeAnyWrite
        /\ Len(signers) <= MAX_MULTISIG_SIGNERS =>
             /\ out.calls = 1
             /\ out.metas = <<AccountMeta_writable(mint.key),
                              authority_meta(authority, signers)>>
                              \o signer_metas(signers)

\* ------------------------------------------------------ absent authority
\* C27: InitializeConfidentialTransferFeeConfig accepts an absent authority:
\* with authority = None it builds the call with the authority field of the
\* data filled with the default (all-zero) address and reaches the
\* cross-program call without faulting.
C27_AbsentAuthorityAccepted ==
    (op = "InitializeConfidentialTransferFeeConfig" /\ ~args.authority.some) =>
        /\ out.result # "panic"
        /\ out.calls = 1
        /\ Len(out.data) >= 34
        /\ \A i \in 3..34 : out.data[i] = 0

\* ------------------------------------------------------- sibling trees
InitializeTransferFeeConfigLayout ==
    <<26, 0>> \o PresenceFlag(args.authority)
              \o PresenceFlag(args.withdraw_withheld_authority)
              \o u16_to_le_bytes(args.transfer_fee_basis_points)
              \o u16_to_le_bytes(args.maximum_fee_u16)

\* C28: the trees instructions/extension/transfer_fee and
\* instructions/extensions/transfer_fee are equivalent encoders: for every
\* input InitializeTransferFeeConfig's data is the same bytes in both
\* ([26, 0], flag + authority, flag + authority, basis points u16 LE,
\* maximum fee u16 LE; 8, 40 or 72 bytes), and SetTransferFee and
\* TransferCheckedWithFee give the same data and the same descriptor list in
\* both.
C28_SiblingTreesEquivalent ==
    /\ op \in {"InitializeTransferFeeConfig", "extensions::InitializeTransferFeeConfig"} =>
         /\ out.data = InitializeTransferFeeConfigLayout
         /\ Len(out.data) \in {8, 40, 72}
         /\ out.data = extensions_initialize_transfer_fee_config_data(
                           args.authority, args.withdraw_withheld_authority,
                           args.transfer_fee_basis_points, args.maximum_fee_u16).data
         /\ out.data = initialize_transfer_fee_config_instruction_data(
                           args.authority, args.withdraw_withheld_authority,
                           args.transfer_fee_basis_points, args.maximum_fee_u16).data
    /\ (op \in {"SetTransferFee", "extensions::SetTransferFee"} /\ out.calls = 1) =>
         /\ out.data = extensions_set_transfer_fee_data(
                           args.transfer_fee_basis_points, args.maximum_fee)
         /\ out.data = set_transfer_fee_instruction_data(
                           args.transfer_fee_basis_points, args.maximum_fee)
         /\ out.metas = extensions_SetTransferFee_invoke(mint, authority,
                           args.transfer_fee_basis_points, args.maximum_fee,
                           signers).metas
         /\ out.metas = SetTransferFee_invoke_signed(mint, authority,
                           args.transfer_fee_basis_points, args.maximum_fee,
                           signers, args.seeds).metas
    /\ (op \in {"TransferCheckedWithFee", "extensions::TransferCheckedWithFee"}
          /\ out.calls = 1) =>
         /\ out.data = extensions_transfer_checked_with_fee_data(
                           args.amount, args.decimals, args.fee)
         /\ out.data = transfer_checked_with_fee_instruction_data(
                           args.amount, args.decimals, args.fee)
         /\ out.metas = extensions_TransferCheckedWithFee_invoke(source_account,
                           mint, destination, authority, args.amount,
                           args.decimals, args.fee, signers).metas
         /\ out.metas = TransferCheckedWithFee_invoke_signed(source_account,
                           mint, destination, authority, args.amount,
                           args.decimals, args.fee, signers, args.seeds).metas

\* ------------------------------------------------------------ pause seeds
\* C29: Pause::invoke_signed hands the caller's program-derived signer seeds
\* to the host call on both paths (empty and non-empty multisig signer list),
\* and the instruction data is [44, 1] on both paths.
C29_PauseSeedsOnBothPaths ==
    (op = "Pause" /\ out.calls = 1) =>
        /\ out.seeds = args.seeds
        /\ out.data = <<44, 1>>

\* ------------------------------------------------------- no TLV region
\* The scanned buffer ends before the TLV region would start.
NoRegion == Len(buf) < ext_start(target)

\* C30: for an account buffer shorter than the region start (base length +
\* 83 + 1 for a mint, base length + 1 for a token account) both scanners
\* return None rather than faulting.
C30_NoRegionNotPresent ==
    (ScannerRan /\ NoRegion) => scan.res = "None"

Next ==
    \/ GetExtensionFromBytes
    \/ GetExtensionDataBytesForVariablePack
    \/ ExtensionTypeFromBytes
    \/ ExtensionTypeToBytes
    \/ Pause
    \/ SetTransferFee
    \/ ExtensionsSetTransferFee
    \/ TransferCheckedWithFee
    \/ ExtensionsTransferCheckedWithFee
    \/ WithdrawWithheldTokensFromMint
    \/ WithdrawWithheldTokensFromAccounts
    \/ HarvestWithheldTokensToMint
    \/ InitializeConfidentialTransferFeeConfig
    \/ MetadataPointerInitialize
    \/ MetadataPointerUpdate
    \/ TransferHookInitialize
    \/ TransferHookUpdate
    \/ InitializeTransferFeeConfig
    \/ ExtensionsInitializeTransferFeeConfig
    \/ InitializeNonTransferableMint
    \/ UpdateInterestBearingMintRate

Spec == Init /\ [][Next]_vars

====
